---- MODULE Spec2Model ----
(***************************************************************************)
(* The optimiser of the Intercept compiler (src/src/codegen/opt/opt.c)     *)
(* over its SSA IR: instruction combination, DCE, mem2reg, jump threading, *)
(* store forwarding, tail-call recognition, the per-function fixed-point   *)
(* driver, and the whole-program function analysis.                        *)
(*                                                                         *)
(* A function is a record                                                  *)
(*   blocks        the block list f->blocks, in list order                 *)
(*   instructions  per block, the instruction list in list order           *)
(*   inst          per instruction id, the IRInstruction (kind + payload)  *)
(*   users         per instruction id, the users vector (as a set)         *)
(*   unreachable   the blocks ir_mark_unreachable was called on            *)
(*   ice           an internal compiler error was raised                   *)
(* u64 values are modelled WordBits wide.                                  *)
(***************************************************************************)
EXTENDS Integers, Sequences, FiniteSets, TLC

VARIABLES
    f,          \* the IRFunction the per-function loop of codegen_optimise works on
    pc,         \* position in the do-while loop of codegen_optimise
    changed,    \* the value the pass that ran last returned
    pre,        \* the function as it was when the pass that ran last was entered
    last_pass,  \* the pass that ran last
    warnings,   \* number of warnings opt_mem2reg printed in its last run
    ub,         \* how the build resolves undefined behaviour of the host C code
    input,      \* the function as the front end handed it to codegen_optimise
    ctx,        \* the CodegenContext opt_analyse_functions works on
    apc,        \* position in the do-while loop of opt_analyse_functions
    fi,         \* index in ctx->functions of the function the attribute loop is at
    target,     \* lcc: the Target of the Context the Module belongs to
    code,       \* lcc: Module::_code, the functions of the module
    machine_ir, \* lcc: the std::vector<MFunction> the last Module::mir() built
    mpc,        \* lcc: what became of the last call on the Module
    opts,       \* lcc driver: the parsed command line
    has_error,  \* lcc driver: an error diagnostic was issued (Context::has_error())
    exit_code,  \* lcc driver: the exit status of the process
    lpc,        \* lcc driver: position in main
    reg_name    \* lcc x86_64: the last call of ToString(id, size) and what it returned

optvars == <<f, pc, changed, pre, last_pass, warnings, ub, input, ctx, apc, fi>>
lccvars == <<target, code, machine_ir, mpc, opts, has_error, exit_code, lpc, reg_name>>
vars == <<f, pc, changed, pre, last_pass, warnings, ub, input, ctx, apc, fi,
          target, code, machine_ir, mpc, opts, has_error, exit_code, lpc, reg_name>>

\* no register name was asked for yet
X64Idle == reg_name = [id |-> "INVALID", size |-> 0, name |-> ""]

\* the lcc Module and driver before anything ran
LccIdle ==
    /\ X64Idle
    /\ target = "x86_64_linux"
    /\ code = <<>>
    /\ machine_ir = <<>>
    /\ mpc = "idle"
    /\ opts = <<>>
    /\ has_error = FALSE
    /\ exit_code = 0
    /\ lpc = "idle"

(***************************************************************************)
(* Bounds of the model.                                                    *)
(***************************************************************************)
WordBits == 4
MaxSmallImm == 3
MaxDepth == 12

Nil == 0

Pow2(n) == 2 ^ n
Word == Pow2(WordBits)

RECURSIVE SeqToSet(_)
SeqToSet(s) == IF s = <<>> THEN {} ELSE {Head(s)} \cup SeqToSet(Tail(s))

RECURSIVE Flatten(_)
Flatten(ss) == IF ss = <<>> THEN <<>> ELSE Head(ss) \o Flatten(Tail(ss))

RemoveFromSeq(s, x) == SelectSeq(s, LAMBDA e : e # x)

(***************************************************************************)
(* u64 arithmetic of the host, WordBits wide.                              *)
(***************************************************************************)
RECURSIVE BitOp(_, _, _, _)
BitOp(op, a, b, n) ==
    IF n = 0 THEN 0
    ELSE LET x == a % 2
             y == b % 2
             bit == CASE op = "&" -> IF x = 1 /\ y = 1 THEN 1 ELSE 0
                      [] op = "|" -> IF x = 1 \/ y = 1 THEN 1 ELSE 0
                      [] OTHER    -> IF x # y THEN 1 ELSE 0
         IN bit + 2 * BitOp(op, a \div 2, b \div 2, n - 1)

\* A shift by WordBits or more is undefined in C: the hardware masks the count
\* ("hw"), another build may produce 0 ("alt").
ShiftCountDefined(b) == b < WordBits
ShiftCount(b) == b % WordBits
ToSigned(a) == IF a >= Word \div 2 THEN a - Word ELSE a
FloorDiv(s, d) == IF s >= 0 THEN s \div d ELSE -((-s + d - 1) \div d)

Shl(a, b) == IF ShiftCountDefined(b) \/ ub = "hw" THEN (a * Pow2(ShiftCount(b))) % Word ELSE 0
Shr(a, b) == IF ShiftCountDefined(b) \/ ub = "hw" THEN a \div Pow2(ShiftCount(b)) ELSE 0
Sar(a, b) ==
    IF ShiftCountDefined(b) \/ ub = "hw"
    THEN (FloorDiv(ToSigned(a), Pow2(ShiftCount(b))) + Word) % Word
    ELSE 0

\* a / 0 and a % 0 are undefined in C: the hardware traps ("hw"), another build
\* may produce 0 ("alt"). DivTraps is read by the folding code.
DivTraps(b) == b = 0 /\ ub = "hw"
Div(a, b) == IF b = 0 THEN 0 ELSE a \div b
Mod(a, b) == IF b = 0 THEN 0 ELSE a % b

BitNot(a) == Word - 1 - a

RECURSIVE ctzll(_)
ctzll(v) == IF v = 0 THEN WordBits ELSE IF v % 2 = 1 THEN 0 ELSE 1 + ctzll(v \div 2)

power_of_two_wrong(value) == value > 0 /\ value % 2 = 0
power_of_two(value) == value > 0 /\ BitOp("&", value, value - 1, WordBits) = 0

(***************************************************************************)
(* The IR: instruction records and the def-use helpers.                    *)
(***************************************************************************)
Blank ==
    [kind |-> "IR_FREED", imm |-> 0, lhs |-> Nil, rhs |-> Nil, operand |-> Nil,
     addr |-> Nil, value |-> Nil, condition |-> Nil, then |-> Nil, else_ |-> Nil,
     destination_block |-> Nil, phi_args |-> <<>>, args |-> <<>>,
     callee_function |-> Nil, callee_instruction |-> Nil,
     is_indirect |-> FALSE, tail_call |-> FALSE, function_ref |-> Nil]

Immediate(v) == [Blank EXCEPT !.kind = "IR_IMMEDIATE", !.imm = v]
Parameter == [Blank EXCEPT !.kind = "IR_PARAMETER"]
Binary(k, l, r) == [Blank EXCEPT !.kind = k, !.lhs = l, !.rhs = r]
Not(o) == [Blank EXCEPT !.kind = "IR_NOT", !.operand = o]
Bitcast(o) == [Blank EXCEPT !.kind = "IR_BITCAST", !.operand = o]
Alloca == [Blank EXCEPT !.kind = "IR_ALLOCA"]
Load(a) == [Blank EXCEPT !.kind = "IR_LOAD", !.operand = a]
Store(v, a) == [Blank EXCEPT !.kind = "IR_STORE", !.value = v, !.addr = a]
Return(o) == [Blank EXCEPT !.kind = "IR_RETURN", !.operand = o]
Unreachable == [Blank EXCEPT !.kind = "IR_UNREACHABLE"]
Branch(b) == [Blank EXCEPT !.kind = "IR_BRANCH", !.destination_block = b]
CondBranch(c, t, e) ==
    [Blank EXCEPT !.kind = "IR_BRANCH_CONDITIONAL", !.condition = c, !.then = t, !.else_ = e]
PhiArg(b, v) == [block |-> b, value |-> v]
Phi(as) == [Blank EXCEPT !.kind = "IR_PHI", !.phi_args = as]
FuncRef(fn) == [Blank EXCEPT !.kind = "IR_FUNC_REF", !.function_ref = fn]
StaticRef == [Blank EXCEPT !.kind = "IR_STATIC_REF"]
DirectCall(fn, as) == [Blank EXCEPT !.kind = "IR_CALL", !.callee_function = fn, !.args = as]
IndirectCall(ci, as) ==
    [Blank EXCEPT !.kind = "IR_CALL", !.is_indirect = TRUE, !.callee_instruction = ci, !.args = as]

FoldedBinaryKinds ==
    {"IR_ADD", "IR_SUB", "IR_MUL", "IR_DIV", "IR_MOD", "IR_SHL", "IR_SHR", "IR_SAR",
     "IR_AND", "IR_OR"}
CompareKinds == {"IR_LT", "IR_LE", "IR_GT", "IR_GE", "IR_EQ", "IR_NE"}
\* The binary kinds of the IR; instcombine has a case for the FoldedBinaryKinds only.
BinaryKinds == FoldedBinaryKinds \cup CompareKinds \cup {"IR_XOR"}
UnaryKinds ==
    {"IR_NOT", "IR_LOAD", "IR_ZERO_EXTEND", "IR_SIGN_EXTEND", "IR_TRUNCATE", "IR_BITCAST"}
TerminatorKinds == {"IR_BRANCH", "IR_BRANCH_CONDITIONAL", "IR_RETURN", "IR_UNREACHABLE"}

\* The operand edges of an instruction (its children).
Operands(r) ==
    CASE r.kind \in BinaryKinds -> {r.lhs, r.rhs}
      [] r.kind \in UnaryKinds -> {r.operand}
      [] r.kind = "IR_RETURN" -> {r.operand} \ {Nil}
      [] r.kind = "IR_STORE" -> {r.addr, r.value}
      [] r.kind = "IR_BRANCH_CONDITIONAL" -> {r.condition}
      [] r.kind = "IR_PHI" -> {r.phi_args[k].value : k \in DOMAIN r.phi_args}
      [] r.kind = "IR_CALL" ->
            SeqToSet(r.args) \cup (IF r.is_indirect THEN {r.callee_instruction} ELSE {})
      [] OTHER -> {}

\* The instruction r with every operand edge to `usee` redirected to `repl`.
ReplaceOperand(r, usee, repl) ==
    LET sw(x) == IF x = usee THEN repl ELSE x
    IN CASE r.kind \in BinaryKinds -> [r EXCEPT !.lhs = sw(@), !.rhs = sw(@)]
         [] r.kind \in UnaryKinds \cup {"IR_RETURN"} -> [r EXCEPT !.operand = sw(@)]
         [] r.kind = "IR_STORE" -> [r EXCEPT !.addr = sw(@), !.value = sw(@)]
         [] r.kind = "IR_BRANCH_CONDITIONAL" -> [r EXCEPT !.condition = sw(@)]
         [] r.kind = "IR_PHI" ->
               [r EXCEPT !.phi_args =
                   [k \in DOMAIN @ |-> [@[k] EXCEPT !.value = sw(@)]]]
         [] r.kind = "IR_CALL" ->
               [r EXCEPT !.args = [k \in DOMAIN @ |-> sw(@[k])],
                         !.callee_instruction = IF r.is_indirect THEN sw(@) ELSE @]
         [] OTHER -> r

InstIds(fn) == DOMAIN fn.inst
BlockIds(fn) == DOMAIN fn.instructions

\* The instructions of the function in traversal order
\* (list_foreach over f->blocks, then over b->instructions).
AllInstructions(fn) == Flatten([k \in DOMAIN fn.blocks |-> fn.instructions[fn.blocks[k]]])
Live(fn) == SeqToSet(AllInstructions(fn))

parent_block(fn, i) ==
    IF \E b \in BlockIds(fn) : i \in SeqToSet(fn.instructions[b])
    THEN CHOOSE b \in BlockIds(fn) : i \in SeqToSet(fn.instructions[b])
    ELSE Nil

ir_remove_use(fn, usee, user) ==
    [fn EXCEPT !.users[usee] = @ \ {user}]

ir_replace_uses(fn, i, replacement) ==
    IF i = replacement THEN fn
    ELSE [fn EXCEPT
            !.inst = [u \in DOMAIN @ |->
                        IF u \in fn.users[i] THEN ReplaceOperand(@[u], i, replacement)
                        ELSE @[u]],
            !.users = [@ EXCEPT ![replacement] = @ \cup fn.users[i], ![i] = {}]]

\* Unlink the instruction from its block, sever its operand edges, free it.
\* Removing an instruction that still has users is an internal compiler error.
ir_remove(fn, i) ==
    LET ops == Operands(fn.inst[i])
    IN [fn EXCEPT
          !.ice = @ \/ fn.users[i] # {},
          !.users = [u \in DOMAIN @ |-> IF u \in ops THEN @[u] \ {i} ELSE @[u]],
          !.instructions = [b \in DOMAIN @ |-> RemoveFromSeq(@[b], i)],
          !.inst = [k \in DOMAIN @ |-> IF k = i THEN Blank ELSE @[k]]]

RECURSIVE RemoveAll(_, _)
RemoveAll(fn, is) ==
    IF is = <<>> THEN fn ELSE RemoveAll(ir_remove([fn EXCEPT !.users[Head(is)] = {}], Head(is)), Tail(is))

ir_remove_and_free_block(fn, b) ==
    LET g == RemoveAll(fn, fn.instructions[b])
    IN [g EXCEPT !.blocks = RemoveFromSeq(@, b)]

ir_mark_unreachable(fn, b) == [fn EXCEPT !.unreachable = @ \cup {b}]

ir_is_branch(r) == r.kind \in TerminatorKinds

is_immediate_pair(fn, i) ==
    /\ fn.inst[fn.inst[i].lhs].kind = "IR_IMMEDIATE"
    /\ fn.inst[fn.inst[i].rhs].kind = "IR_IMMEDIATE"

imm_lhs(fn, i) == fn.inst[fn.inst[i].lhs].imm
imm_rhs(fn, i) == fn.inst[fn.inst[i].rhs].imm

NoSideEffectKinds ==
    {"IR_IMMEDIATE", "IR_LOAD", "IR_PARAMETER", "IR_NOT", "IR_STATIC_REF", "IR_FUNC_REF",
     "IR_LIT_INTEGER", "IR_LIT_STRING", "IR_ALLOCA", "IR_ZERO_EXTEND", "IR_SIGN_EXTEND",
     "IR_TRUNCATE", "IR_BITCAST"} \cup BinaryKinds

has_side_effects_wrong(r, attr_pure) ==
    IF r.kind \in NoSideEffectKinds \cup {"IR_STORE"} THEN FALSE
    ELSE IF r.kind = "IR_CALL"
         THEN r.is_indirect \/ ~attr_pure[r.callee_function] \/ r.tail_call
         ELSE TRUE
\* `attr_pure` is the attr_pure flag of every function (read through callee_function).
has_side_effects(r, attr_pure) ==
    IF r.kind \in NoSideEffectKinds THEN FALSE
    ELSE IF r.kind = "IR_CALL"
         THEN r.is_indirect \/ ~attr_pure[r.callee_function] \/ r.tail_call
         ELSE TRUE

(***************************************************************************)
(* Instruction combination (opt_instcombine). A pass state is              *)
(* [f, changed]: the function and the flag the pass returns.               *)
(***************************************************************************)
EvalBinary(kind, a, b) ==
    CASE kind = "IR_ADD" -> (a + b) % Word
      [] kind = "IR_SUB" -> (a - b + Word) % Word
      [] kind = "IR_MUL" -> (a * b) % Word
      [] kind = "IR_DIV" -> Div(a, b)
      [] kind = "IR_MOD" -> Mod(a, b)
      [] kind = "IR_SHL" -> Shl(a, b)
      [] kind = "IR_SHR" -> Shr(a, b)
      [] kind = "IR_SAR" -> Sar(a, b)
      [] kind = "IR_AND" -> BitOp("&", a, b, WordBits)
      [] kind = "IR_OR" -> BitOp("|", a, b, WordBits)
      [] OTHER -> 0

\* Both operand uses removed (the body shared by the rewrites below).
RemoveBothUses(fn, i) ==
    ir_remove_use(ir_remove_use(fn, fn.inst[i].lhs, i), fn.inst[i].rhs, i)

IR_REDUCE_BINARY_wrong(st, i) ==
    LET fn == st.f
        g == RemoveBothUses(fn, i)
    IN [f |-> [g EXCEPT !.inst[i] = Immediate(EvalBinary("IR_ADD", imm_lhs(fn, i), imm_rhs(fn, i)))],
        changed |-> TRUE]
\* The body of IR_REDUCE_BINARY(op) (and of the IR_SAR case) once is_immediate_pair(i) holds.
IR_REDUCE_BINARY(st, i) ==
    LET fn == st.f
        kind == fn.inst[i].kind
        g == RemoveBothUses(fn, i)
    IN IF kind \in {"IR_DIV", "IR_MOD"} /\ DivTraps(imm_rhs(fn, i))
       THEN [f |-> [g EXCEPT !.inst[i].kind = "IR_IMMEDIATE", !.trap = TRUE],
             changed |-> st.changed]
       ELSE [f |-> [g EXCEPT !.inst[i] = Immediate(EvalBinary(kind, imm_lhs(fn, i), imm_rhs(fn, i)))],
             changed |-> TRUE]

IsImm(fn, x) == fn.inst[x].kind = "IR_IMMEDIATE"
ImmIs(fn, x, v) == IsImm(fn, x) /\ fn.inst[x].imm = v

\* remove both uses, then replace the uses of i by `by`
ReplaceBy(st, i, by) ==
    [st EXCEPT !.f = ir_replace_uses(RemoveBothUses(st.f, i), i, by)]

instcombine_add(st, i) ==
    LET fn == st.f  r == fn.inst[i]
    IN IF is_immediate_pair(fn, i) THEN IR_REDUCE_BINARY(st, i)
       ELSE IF ImmIs(fn, r.lhs, 0) THEN ReplaceBy(st, i, r.rhs)
       ELSE IF ImmIs(fn, r.rhs, 0) THEN ReplaceBy(st, i, r.lhs)
       ELSE st

instcombine_sub(st, i) ==
    LET fn == st.f  r == fn.inst[i]
    IN IF is_immediate_pair(fn, i) THEN IR_REDUCE_BINARY(st, i)
       ELSE IF ImmIs(fn, r.rhs, 0) THEN ReplaceBy(st, i, r.lhs)
       ELSE st

instcombine_mul(st, i) ==
    LET fn == st.f  r == fn.inst[i]
    IN IF is_immediate_pair(fn, i) THEN IR_REDUCE_BINARY(st, i)
       ELSE IF ImmIs(fn, r.lhs, 0) \/ ImmIs(fn, r.rhs, 0)
            THEN [st EXCEPT !.f = [RemoveBothUses(fn, i) EXCEPT !.inst[i] = Immediate(0)]]
       ELSE IF ImmIs(fn, r.lhs, 1) THEN ReplaceBy(st, i, r.rhs)
       ELSE IF ImmIs(fn, r.rhs, 1) THEN ReplaceBy(st, i, r.lhs)
       ELSE st

instcombine_div(st, i) ==
    LET fn == st.f  r == fn.inst[i]  divisor == r.rhs
    IN IF is_immediate_pair(fn, i) THEN IR_REDUCE_BINARY(st, i)
       ELSE IF ~IsImm(fn, divisor) THEN st
       ELSE IF fn.inst[divisor].imm = 1 THEN ReplaceBy(st, i, r.rhs)
       ELSE IF power_of_two(fn.inst[divisor].imm)
            THEN [f |-> [fn EXCEPT !.inst[i].kind = "IR_SAR",
                                   !.inst[divisor].imm = ctzll(@)],
                  changed |-> TRUE]
       ELSE st

instcombine_not(st, i) ==
    LET fn == st.f  o == fn.inst[i].operand
    IN IF IsImm(fn, o)
       THEN [f |-> [ir_remove_use(fn, o, i) EXCEPT !.inst[i] = Immediate(BitNot(fn.inst[o].imm))],
             changed |-> TRUE]
       ELSE st

instcombine_cond_br_wrong(st, i) ==
    LET fn == st.f  r == fn.inst[i]
    IN IF ~IsImm(fn, r.condition) THEN st
       ELSE [st EXCEPT !.f = ir_remove(fn, i)]
instcombine_cond_br(st, i) ==
    LET fn == st.f  r == fn.inst[i]
    IN IF ~IsImm(fn, r.condition) THEN st
       ELSE [st EXCEPT !.f =
               [ir_remove_use(fn, r.condition, i) EXCEPT !.inst[i] =
                   Branch(IF fn.inst[r.condition].imm # 0 THEN r.then ELSE r.else_)]]

instcombine_phi(st, i) ==
    LET fn == st.f  r == fn.inst[i]
    IN IF Len(r.phi_args) > 1 THEN st
       ELSE LET v == r.phi_args[1].value
            IN [st EXCEPT !.f = ir_remove(ir_replace_uses(ir_remove_use(fn, v, i), i, v), i)]

instcombine_call(st, i) ==
    LET fn == st.f  r == fn.inst[i]  callee == r.callee_instruction
    IN IF ~r.is_indirect THEN st
       ELSE IF fn.inst[callee].kind = "IR_FUNC_REF"
            THEN [st EXCEPT !.f =
                    [ir_remove_use(fn, callee, i) EXCEPT
                        !.inst[i].is_indirect = FALSE,
                        !.inst[i].callee_instruction = Nil,
                        !.inst[i].callee_function = fn.inst[callee].function_ref]]
       ELSE IF fn.inst[callee].kind = "IR_BITCAST"
               /\ fn.inst[fn.inst[callee].operand].kind = "IR_FUNC_REF"
            THEN [st EXCEPT !.f =
                    [ir_remove_use(ir_remove_use(fn, fn.inst[callee].operand, callee), callee, i)
                       EXCEPT
                        !.inst[i].is_indirect = FALSE,
                        !.inst[i].callee_instruction = Nil,
                        !.inst[i].callee_function = fn.inst[fn.inst[callee].operand].function_ref]]
       ELSE st

\* The body of the two loops of opt_instcombine: the switch on i->kind.
instcombine_inst(st, i) ==
    LET kind == st.f.inst[i].kind
    IN IF st.f.trap THEN st
       ELSE CASE kind = "IR_ADD" -> instcombine_add(st, i)
              [] kind = "IR_SUB" -> instcombine_sub(st, i)
              [] kind = "IR_MUL" -> instcombine_mul(st, i)
              [] kind = "IR_DIV" -> instcombine_div(st, i)
              [] kind \in {"IR_MOD", "IR_SHL", "IR_SHR", "IR_SAR", "IR_AND", "IR_OR"} ->
                    IF is_immediate_pair(st.f, i) THEN IR_REDUCE_BINARY(st, i) ELSE st
              [] kind = "IR_NOT" -> instcombine_not(st, i)
              [] kind = "IR_BRANCH_CONDITIONAL" -> instcombine_cond_br(st, i)
              [] kind = "IR_PHI" -> instcombine_phi(st, i)
              [] kind = "IR_CALL" -> instcombine_call(st, i)
              [] OTHER -> st

RECURSIVE instcombine_loop(_, _)
instcombine_loop(st, is) ==
    IF is = <<>> THEN st ELSE instcombine_loop(instcombine_inst(st, Head(is)), Tail(is))

opt_instcombine(fn) == instcombine_loop([f |-> fn, changed |-> FALSE], AllInstructions(fn))

(***************************************************************************)
(* DCE (opt_dce).                                                          *)
(***************************************************************************)
dce_inst(st, i, attr_pure) ==
    IF st.f.users[i] = {} /\ ~has_side_effects(st.f.inst[i], attr_pure)
    THEN [f |-> ir_remove(st.f, i), changed |-> TRUE]
    ELSE st

RECURSIVE dce_loop(_, _, _)
dce_loop(st, is, attr_pure) ==
    IF is = <<>> THEN st ELSE dce_loop(dce_inst(st, Head(is), attr_pure), Tail(is), attr_pure)

opt_dce(fn, attr_pure) ==
    dce_loop([f |-> fn, changed |-> FALSE], AllInstructions(fn), attr_pure)

(***************************************************************************)
(* Control flow and the dominator tree (build_dominator_tree).             *)
(***************************************************************************)
LastInst(fn, b) == fn.instructions[b][Len(fn.instructions[b])]

Successors(fn, b) ==
    IF fn.instructions[b] = <<>> THEN {}
    ELSE LET r == fn.inst[LastInst(fn, b)]
         IN CASE r.kind = "IR_BRANCH" -> {r.destination_block}
              [] r.kind = "IR_BRANCH_CONDITIONAL" -> {r.then, r.else_}
              [] OTHER -> {}

Listed(fn) == SeqToSet(fn.blocks)
Predecessors(fn, b) == {p \in Listed(fn) : b \in Successors(fn, p)}

RECURSIVE ReachFrom(_, _, _)
\* blocks reachable from the set `from` without passing through `avoid`
ReachFrom(fn, from, avoid) ==
    LET next == (from \cup UNION {Successors(fn, b) : b \in from}) \ {avoid}
    IN IF next = from THEN from ELSE ReachFrom(fn, next, avoid)

EntryBlock(fn) == fn.blocks[1]
Reachable(fn) == ReachFrom(fn, {EntryBlock(fn)}, Nil)

\* d dominates b: every path from the entry block to b passes through d
Dominates(fn, d, b) ==
    \/ d = b
    \/ b \notin Reachable(fn)
    \/ d = EntryBlock(fn)
    \/ b \notin ReachFrom(fn, {EntryBlock(fn)}, d)

StrictDominators(fn, b) == {d \in Reachable(fn) : d # b /\ Dominates(fn, d, b)}

\* the immediate dominator of a reachable block other than the entry block
ImmediateDominator(fn, b) ==
    CHOOSE d \in StrictDominators(fn, b) :
        \A e \in StrictDominators(fn, b) : Dominates(fn, e, d)

\* the children of a node of the dominator tree, in block-list order
DomChildren(fn, n) ==
    SelectSeq(fn.blocks,
              LAMBDA b : b \in Reachable(fn) /\ b # EntryBlock(fn) /\ ImmediateDominator(fn, b) = n)

(***************************************************************************)
(* Block reordering (opt_reorder_blocks).                                  *)
(***************************************************************************)
reorder_pushed_wrong(fn, node) ==
    LET last == fn.inst[LastInst(fn, node)]
        next == CASE last.kind = "IR_BRANCH" -> last.destination_block
                  [] last.kind = "IR_BRANCH_CONDITIONAL" -> last.then
                  [] OTHER -> Nil
        children == DomChildren(fn, node)
    IN SelectSeq(children, LAMBDA c : c = next) \o SelectSeq(children, LAMBDA c : c # next)
\* The children a node pushes: all except the branch target, then the branch target.
reorder_pushed(fn, node) ==
    LET last == fn.inst[LastInst(fn, node)]
        next == CASE last.kind = "IR_BRANCH" -> last.destination_block
                  [] last.kind = "IR_BRANCH_CONDITIONAL" -> last.then
                  [] OTHER -> Nil
        children == DomChildren(fn, node)
    IN SelectSeq(children, LAMBDA c : c # next) \o SelectSeq(children, LAMBDA c : c = next)

RECURSIVE reorder_loop(_, _, _)
reorder_loop(fn, stack, out) ==
    IF stack = <<>> THEN out
    ELSE LET node == stack[Len(stack)]
         IN reorder_loop(fn, SubSeq(stack, 1, Len(stack) - 1) \o reorder_pushed(fn, node),
                         Append(out, node))

opt_reorder_blocks(fn) ==
    [fn EXCEPT !.blocks = reorder_loop(fn, <<EntryBlock(fn)>>, <<>>)]

(***************************************************************************)
(* Tail-call recognition (tail_call_possible_iter .. opt_tail_call_elim).  *)
(* A result is [ok, phis, overflow]: the value returned, tc->phis, and     *)
(* whether the recursion went deeper than MaxDepth.                        *)
(***************************************************************************)
InstructionsAfter(fn, i) ==
    LET is == fn.instructions[parent_block(fn, i)]
        k == CHOOSE n \in DOMAIN is : is[n] = i
    IN SubSeq(is, k + 1, Len(is))

phi_admitted_wrong(fn, call, phis, i) == TRUE
\* the phi has the call or a phi recorded earlier among its arguments
phi_admitted(fn, call, phis, i) ==
    \E k \in DOMAIN fn.inst[i].phi_args :
        LET v == fn.inst[i].phi_args[k].value IN v = call \/ v \in phis

RECURSIVE tail_call_scan(_, _, _, _, _)
tail_call_possible_iter(fn, call, phis, b, fuel) ==
    IF fuel = 0 THEN [ok |-> FALSE, phis |-> phis, overflow |-> TRUE]
    ELSE tail_call_scan(fn, call, phis,
                        IF b = parent_block(fn, call) THEN InstructionsAfter(fn, call)
                        ELSE fn.instructions[b],
                        fuel)

tail_call_scan(fn, call, phis, is, fuel) ==
    IF is = <<>> THEN [ok |-> FALSE, phis |-> phis, overflow |-> FALSE]
    ELSE LET i == Head(is)  r == fn.inst[i]
         IN CASE r.kind = "IR_PHI" ->
                   IF phi_admitted(fn, call, phis, i)
                   THEN tail_call_scan(fn, call, phis \cup {i}, Tail(is), fuel)
                   ELSE [ok |-> FALSE, phis |-> phis, overflow |-> FALSE]
              [] r.kind = "IR_RETURN" ->
                   [ok |-> r.operand \in phis \/ r.operand = call, phis |-> phis,
                    overflow |-> FALSE]
              [] r.kind = "IR_BRANCH" ->
                   tail_call_possible_iter(fn, call, phis, r.destination_block, fuel - 1)
              [] r.kind = "IR_BRANCH_CONDITIONAL" ->
                   LET t == tail_call_possible_iter(fn, call, phis, r.then, fuel - 1)
                   IN IF t.ok /\ ~t.overflow
                      THEN tail_call_possible_iter(fn, call, t.phis, r.else_, fuel - 1)
                      ELSE t
              [] OTHER -> [ok |-> FALSE, phis |-> phis, overflow |-> FALSE]

tail_call_possible(fn, i) ==
    tail_call_possible_iter(fn, i, {}, parent_block(fn, i), MaxDepth)

\* [f, converted, overflow]
opt_try_convert_to_tail_call(fn, i) ==
    LET t == tail_call_possible(fn, i)
    IN IF t.ok
       THEN [f |-> ir_mark_unreachable([fn EXCEPT !.inst[i].tail_call = TRUE],
                                       parent_block(fn, i)),
             converted |-> TRUE, overflow |-> FALSE]
       ELSE [f |-> [fn EXCEPT !.overflow = @ \/ t.overflow], converted |-> FALSE,
             overflow |-> t.overflow]

RECURSIVE tail_call_block(_, _)
\* the inner loop of opt_tail_call_elim: stops at the first call converted
tail_call_block(fn, is) ==
    IF is = <<>> \/ fn.overflow THEN fn
    ELSE IF fn.inst[Head(is)].kind # "IR_CALL" THEN tail_call_block(fn, Tail(is))
    ELSE LET t == opt_try_convert_to_tail_call(fn, Head(is))
         IN IF t.converted THEN t.f ELSE tail_call_block(t.f, Tail(is))

RECURSIVE tail_call_blocks(_, _)
tail_call_blocks(fn, bs) ==
    IF bs = <<>> THEN fn
    ELSE tail_call_blocks(tail_call_block(fn, fn.instructions[Head(bs)]), Tail(bs))

opt_tail_call_elim_wrong(fn) ==
    [f |-> tail_call_blocks(fn, fn.blocks),
     changed |-> \E i \in Live(fn) : tail_call_blocks(fn, fn.blocks).inst[i].tail_call]
opt_tail_call_elim(fn) == [f |-> tail_call_blocks(fn, fn.blocks), changed |-> FALSE]

(***************************************************************************)
(* Mem2Reg (opt_mem2reg). vars is the vector of stack_var records          *)
(* [alloca, store, loads, unoptimisable]; warnings counts the eprint calls.*)
(***************************************************************************)
\* index of the first element of the vector satisfying Test, or 0
FirstIndex(vs, Test(_)) ==
    IF \E k \in DOMAIN vs : Test(vs[k])
    THEN CHOOSE k \in DOMAIN vs : Test(vs[k]) /\ \A j \in 1..(k - 1) : ~Test(vs[j])
    ELSE 0

mem2reg_collect_inst_wrong(fn, c, i) ==
    LET r == fn.inst[i]
    IN CASE r.kind = "IR_ALLOCA" ->
              [c EXCEPT !.vars = Append(@, [alloca |-> i, store |-> Nil, loads |-> <<>>,
                                            unoptimisable |-> FALSE])]
         [] r.kind = "IR_STORE" ->
              LET k == FirstIndex(c.vars, LAMBDA a : ~a.unoptimisable /\ a.alloca = r.addr)
              IN IF k = 0 THEN c
                 ELSE IF c.vars[k].store # Nil
                      THEN [c EXCEPT !.vars[k].unoptimisable = TRUE]
                      ELSE [c EXCEPT !.vars[k].store = i]
         [] r.kind = "IR_LOAD" ->
              LET k == FirstIndex(c.vars, LAMBDA a : ~a.unoptimisable /\ a.alloca = r.operand)
              IN IF k = 0 THEN c
                 ELSE IF c.vars[k].store = Nil
                      THEN [c EXCEPT !.vars[k].loads = Append(@, i), !.warnings = @ + 1]
                      ELSE [c EXCEPT !.vars[k].loads = Append(@, i)]
         [] OTHER -> c
\* the switch of the collecting loop, for one instruction
mem2reg_collect_inst(fn, c, i) ==
    LET r == fn.inst[i]
    IN CASE r.kind = "IR_ALLOCA" ->
              [c EXCEPT !.vars = Append(@, [alloca |-> i, store |-> Nil, loads |-> <<>>,
                                            unoptimisable |-> FALSE])]
         [] r.kind = "IR_STORE" ->
              LET k == FirstIndex(c.vars, LAMBDA a : ~a.unoptimisable /\ a.alloca = r.addr)
              IN IF k = 0 THEN c
                 ELSE IF c.vars[k].store # Nil
                      THEN [c EXCEPT !.vars[k].unoptimisable = TRUE]
                      ELSE [c EXCEPT !.vars[k].store = i]
         [] r.kind = "IR_LOAD" ->
              LET k == FirstIndex(c.vars, LAMBDA a : ~a.unoptimisable /\ a.alloca = r.operand)
              IN IF k = 0 THEN c
                 ELSE IF c.vars[k].store = Nil
                      THEN [c EXCEPT !.vars[k].unoptimisable = TRUE, !.warnings = @ + 1]
                      ELSE [c EXCEPT !.vars[k].loads = Append(@, i)]
         [] OTHER -> c

RECURSIVE mem2reg_collect(_, _, _)
mem2reg_collect(fn, c, is) ==
    IF is = <<>> THEN c
    ELSE mem2reg_collect(fn, mem2reg_collect_inst(fn, c, Head(is)), Tail(is))

mem2reg_optimisable_wrong(fn, a) == ~a.unoptimisable /\ a.store # Nil
\* the negation of the condition under which the second loop skips the variable
mem2reg_optimisable(fn, a) ==
    ~(a.unoptimisable \/ a.store = Nil \/ Cardinality(fn.users[a.alloca]) # Len(a.loads) + 1)

RECURSIVE mem2reg_replace_loads(_, _, _)
mem2reg_replace_loads(fn, store, loads) ==
    IF loads = <<>> THEN fn
    ELSE mem2reg_replace_loads(
             ir_remove(ir_replace_uses(fn, Head(loads), fn.inst[store].value), Head(loads)),
             store, Tail(loads))

mem2reg_yeet_wrong(fn, a) ==
    LET g == mem2reg_replace_loads(fn, a.store, a.loads)
    IN ir_remove([g EXCEPT !.users[a.store] = {}], a.store)
\* the body of the second loop for an optimisable variable
mem2reg_yeet(fn, a) ==
    LET g == mem2reg_replace_loads(fn, a.store, a.loads)
        h == [g EXCEPT !.ice = @ \/ Cardinality(g.users[a.store]) > 1,
                       !.users[a.store] = {}]
    IN ir_remove(ir_remove(h, a.store), a.alloca)

RECURSIVE mem2reg_optimise(_, _)
mem2reg_optimise(st, vs) ==
    IF vs = <<>> THEN st
    ELSE IF mem2reg_optimisable(st.f, Head(vs))
         THEN mem2reg_optimise([f |-> mem2reg_yeet(st.f, Head(vs)), changed |-> TRUE], Tail(vs))
         ELSE mem2reg_optimise(st, Tail(vs))

mem2reg_vars(fn) == mem2reg_collect(fn, [vars |-> <<>>, warnings |-> 0], AllInstructions(fn))

\* [f, changed, warnings]
opt_mem2reg(fn) ==
    LET c == mem2reg_vars(fn)
        st == mem2reg_optimise([f |-> fn, changed |-> FALSE], c.vars)
    IN [f |-> st.f, changed |-> st.changed, warnings |-> c.warnings]

(***************************************************************************)
(* Jump threading (opt_jump_threading).                                    *)
(***************************************************************************)
\* the blocks jump threading treats as redundant: a single direct branch
single_branch_block_wrong(fn, b) == fn.inst[LastInst(fn, b)].kind = "IR_BRANCH"
single_branch_block(fn, b) ==
    /\ Len(fn.instructions[b]) = 1
    /\ fn.inst[LastInst(fn, b)].kind = "IR_BRANCH"

\* the terminator of b2 and the phis of b2 retargeted from b to t
jt_retarget_inst(r, b, t, isLast) ==
    CASE isLast /\ r.kind = "IR_BRANCH" /\ r.destination_block = b ->
            [r EXCEPT !.destination_block = t]
      [] isLast /\ r.kind = "IR_BRANCH_CONDITIONAL" ->
            [r EXCEPT !.then = IF @ = b THEN t ELSE @, !.else_ = IF @ = b THEN t ELSE @]
      [] r.kind = "IR_PHI" ->
            [r EXCEPT !.phi_args =
                [k \in DOMAIN @ |-> [@[k] EXCEPT !.block = IF @ = b THEN t ELSE @]]]
      [] OTHER -> r

\* the inner loop over every other block b2 of the function
jt_retarget(fn, b, t) ==
    [fn EXCEPT !.inst =
        [i \in DOMAIN @ |->
            LET b2 == parent_block(fn, i)
            IN IF b2 # Nil /\ b2 \in Listed(fn) /\ b2 # b
               THEN jt_retarget_inst(@[i], b, t, i = LastInst(fn, b2))
               ELSE @[i]]]

\* st is [f, changed, blocks_to_remove]
jt_block(st, b) ==
    LET fn == st.f  last == LastInst(fn, b)  r == fn.inst[last]
    IN IF single_branch_block(fn, b)
       THEN [f |-> jt_retarget(fn, b, r.destination_block), changed |-> TRUE,
             blocks_to_remove |-> IF b \in SeqToSet(st.blocks_to_remove)
                                  THEN st.blocks_to_remove
                                  ELSE Append(st.blocks_to_remove, b)]
       ELSE IF r.kind = "IR_BRANCH_CONDITIONAL" /\ r.then = r.else_
       THEN [st EXCEPT !.f = [ir_remove_use(fn, r.condition, last) EXCEPT
                                 !.inst[last] = Branch(r.then)],
                       !.changed = TRUE]
       ELSE st

RECURSIVE jt_loop(_, _)
jt_loop(st, bs) == IF bs = <<>> THEN st ELSE jt_loop(jt_block(st, Head(bs)), Tail(bs))

RECURSIVE jt_remove_blocks(_, _)
jt_remove_blocks(fn, bs) ==
    IF bs = <<>> THEN fn ELSE jt_remove_blocks(ir_remove_and_free_block(fn, Head(bs)), Tail(bs))

opt_jump_threading(fn) ==
    LET st == jt_loop([f |-> fn, changed |-> FALSE, blocks_to_remove |-> <<>>], fn.blocks)
    IN [f |-> jt_remove_blocks(st.f, st.blocks_to_remove), changed |-> st.changed]

(***************************************************************************)
(* Store forwarding (opt_store_forwarding). st is [f, changed, vars] with  *)
(* vars the vector of [alloca, store] of the current block.                *)
(***************************************************************************)
\* the instructions of the block strictly between s and i
Between(fn, b, s, i) ==
    LET is == fn.instructions[b]
        ks == CHOOSE n \in DOMAIN is : is[n] = s
        ki == CHOOSE n \in DOMAIN is : is[n] = i
    IN SeqToSet(SubSeq(is, ks + 1, ki - 1))

sf_store(st, b, i) ==
    LET fn == st.f  r == fn.inst[i]
        k == FirstIndex(st.vars, LAMBDA el : el.alloca = r.addr)
    IN IF fn.inst[r.addr].kind # "IR_ALLOCA" THEN st
       ELSE IF k = 0 THEN [st EXCEPT !.vars = Append(@, [alloca |-> r.addr, store |-> i])]
       ELSE LET v == st.vars[k]
                used == Between(fn, b, v.store, i) \cap fn.users[v.alloca] # {}
            IN [st EXCEPT !.f = IF used THEN fn ELSE ir_remove(fn, v.store),
                          !.vars[k].store = i]

sf_load(st, i) ==
    LET fn == st.f  r == fn.inst[i]
        k == FirstIndex(st.vars, LAMBDA el : el.alloca = r.operand)
    IN IF k = 0 THEN st
       ELSE LET v == st.vars[k]
            IN [st EXCEPT
                  !.f = ir_remove(ir_replace_uses(ir_remove_use(fn, v.store, i), i,
                                                  fn.inst[v.store].value), i),
                  !.changed = TRUE]

sf_inst(st, b, i) ==
    CASE st.f.inst[i].kind = "IR_STORE" -> sf_store(st, b, i)
      [] st.f.inst[i].kind = "IR_LOAD" -> sf_load(st, i)
      [] OTHER -> st

RECURSIVE sf_block(_, _, _)
sf_block(st, b, is) ==
    IF is = <<>> THEN st ELSE sf_block(sf_inst(st, b, Head(is)), b, Tail(is))

RECURSIVE sf_loop_wrong(_, _)
sf_loop_wrong(st, bs) ==
    IF bs = <<>> THEN st
    ELSE sf_loop_wrong(sf_block(st, Head(bs), st.f.instructions[Head(bs)]), Tail(bs))

RECURSIVE sf_loop(_, _)
sf_loop(st, bs) ==
    IF bs = <<>> THEN st
    ELSE sf_loop(sf_block([st EXCEPT !.vars = <<>>], Head(bs), st.f.instructions[Head(bs)]),
                 Tail(bs))

opt_store_forwarding(fn) ==
    LET st == sf_loop([f |-> fn, changed |-> FALSE, vars |-> <<>>], fn.blocks)
    IN [f |-> st.f, changed |-> st.changed]

(***************************************************************************)
(* The functions the front end hands to the optimiser. MkFunction builds a *)
(* function from its instructions and block lists; the users vectors are   *)
(* those the IR builder maintains (one entry per operand edge).            *)
(***************************************************************************)
MkFunction(insts, blockInsts) ==
    LET live == SeqToSet(Flatten(blockInsts))
    IN [blocks |-> [k \in DOMAIN blockInsts |-> k],
        instructions |-> blockInsts,
        inst |-> insts,
        users |-> [v \in DOMAIN insts |-> {u \in live : v \in Operands(insts[u])}],
        unreachable |-> {},
        ice |-> FALSE, trap |-> FALSE, overflow |-> FALSE]

ImmValues == (0..MaxSmallImm) \cup {Word - 1}

\* the callee of the calls below (function 2) and the function optimised (function 1)
Callee == 2

\* { x = a op b; return x }
FoldProgram(kind, a, b) ==
    MkFunction(<<Immediate(a), Immediate(b), Binary(kind, 1, 2), Return(3)>>, <<<<1, 2, 3, 4>>>>)

\* f(x) { return x op c }  and  f(x) { return c op x }
IdentityProgram(kind, c, immOnLeft) ==
    MkFunction(<<Parameter, Immediate(c),
                 IF immOnLeft THEN Binary(kind, 2, 1) ELSE Binary(kind, 1, 2), Return(3)>>,
               <<<<1, 2, 3, 4>>>>)

\* { return ~a }
NotProgram(a) == MkFunction(<<Immediate(a), Not(1), Return(2)>>, <<<<1, 2, 3>>>>)

\* { a = alloca; store v, a; (loads of a;) return }  with v a constant or a parameter
Mem2RegProgram(fromParam, nloads) ==
    LET v == IF fromParam THEN Parameter ELSE Immediate(1)
    IN CASE nloads = 0 ->
              MkFunction(<<Alloca, v, Store(2, 1), Return(2)>>, <<<<1, 2, 3, 4>>>>)
         [] nloads = 1 ->
              MkFunction(<<Alloca, v, Store(2, 1), Load(1), Return(4)>>, <<<<1, 2, 3, 4, 5>>>>)
         [] OTHER ->
              MkFunction(<<Alloca, v, Store(2, 1), Load(1), Load(1), Binary("IR_LT", 4, 5),
                           Return(6)>>, <<<<1, 2, 3, 4, 5, 6, 7>>>>)

\* the store sits in the then-block of a conditional, the load after the join
CrossBlockStoreProgram ==
    MkFunction(<<Alloca, Parameter, CondBranch(2, 2, 3),
                 Binary("IR_ADD", 2, 2), Store(4, 1), Branch(3),
                 Load(1), Return(7)>>,
               <<<<1, 2, 3>>, <<4, 5, 6>>, <<7, 8>>>>)

\* two stores in the first block, the load in the second
TwoStoresProgram ==
    MkFunction(<<Alloca, Immediate(1), Store(2, 1), Immediate(2), Store(4, 1), Branch(2),
                 Load(1), Return(7)>>,
               <<<<1, 2, 3, 4, 5, 6>>, <<7, 8>>>>)

\* two stores and the load in one block
TwoStoresOneBlockProgram ==
    MkFunction(<<Alloca, Parameter, Store(2, 1), Immediate(2), Store(4, 1),
                 Load(1), Return(6)>>,
               <<<<1, 2, 3, 4, 5, 6, 7>>>>)

\* a load before the only store
LoadBeforeStoreProgram ==
    MkFunction(<<Alloca, Load(1), Immediate(1), Store(3, 1), Return(2)>>, <<<<1, 2, 3, 4, 5>>>>)

\* the address of the variable is passed to a call
AddressTakenProgram ==
    MkFunction(<<Alloca, Immediate(1), Store(2, 1), DirectCall(Callee, <<1>>), Load(1),
                 Return(5)>>, <<<<1, 2, 3, 4, 5, 6>>>>)

\* two variables, the second initialised from a load of the first (or the reverse)
ChainProgram(firstFeedsSecond) ==
    IF firstFeedsSecond
    THEN MkFunction(<<Alloca, Alloca, Parameter, Store(3, 1), Load(1), Store(5, 2), Load(2),
                      Return(7)>>, <<<<1, 2, 3, 4, 5, 6, 7, 8>>>>)
    ELSE MkFunction(<<Alloca, Alloca, Parameter, Store(3, 2), Load(2), Store(5, 1), Load(1),
                      Return(7)>>, <<<<1, 2, 3, 4, 5, 6, 7, 8>>>>)

\* if (p) {} else { k2 }; x = phi(k1 from the empty block, k2); return x
DiamondProgram ==
    MkFunction(<<Parameter, Immediate(1), CondBranch(1, 2, 3),
                 Branch(4),
                 Immediate(2), Branch(4),
                 Phi(<<PhiArg(2, 2), PhiArg(3, 5)>>), Return(7)>>,
               <<<<1, 2, 3>>, <<4>>, <<5, 6>>, <<7, 8>>>>)

\* return g();
PlainTailCallProgram ==
    MkFunction(<<Parameter, DirectCall(Callee, <<1>>), Return(2)>>, <<<<1, 2, 3>>>>)

\* g(); return 1;   (the call's value is unused)
UnusedCallProgram ==
    MkFunction(<<Immediate(1), DirectCall(Callee, <<>>), Return(1)>>, <<<<1, 2, 3>>>>)

\* B1: if (q) goto B2 else goto B3     B2: c = g(); if (p) goto B3 else goto B4
\* B3: x = phi(k1 from B1, c from B2); goto B4
\* B4: y = phi(k2 from B2, x from B3); return y
PhiTailCallProgram ==
    MkFunction(<<Parameter, Parameter, Immediate(1), Immediate(2), CondBranch(1, 2, 3),
                 DirectCall(Callee, <<>>), CondBranch(2, 3, 4),
                 Phi(<<PhiArg(1, 3), PhiArg(2, 6)>>), Branch(4),
                 Phi(<<PhiArg(2, 4), PhiArg(3, 8)>>), Return(10)>>,
               <<<<1, 2, 3, 4, 5>>, <<6, 7>>, <<8, 9>>, <<10, 11>>>>)

\* an indirect call through a func_ref (or a bitcast of one)
IndirectCallProgram(viaBitcast) ==
    IF viaBitcast
    THEN MkFunction(<<FuncRef(Callee), Bitcast(1), IndirectCall(2, <<>>), Return(3)>>,
                    <<<<1, 2, 3, 4>>>>)
    ELSE MkFunction(<<FuncRef(Callee), IndirectCall(1, <<>>), Return(2)>>, <<<<1, 2, 3>>>>)

\* if (c) return 1 else return 2, with c a constant
ConstantBranchProgram(c) ==
    MkFunction(<<Immediate(c), CondBranch(1, 2, 3), Immediate(1), Return(3), Immediate(2),
                 Return(5)>>, <<<<1, 2>>, <<3, 4>>, <<5, 6>>>>)

\* { x = c; return p / x + p / x }: both divisions read the one variable
SharedDivisorProgram(c) ==
    MkFunction(<<Alloca, Immediate(c), Store(2, 1), Parameter, Load(1), Binary("IR_DIV", 4, 5),
                 Load(1), Binary("IR_DIV", 4, 7), Binary("IR_ADD", 6, 8), Return(9)>>,
               <<<<1, 2, 3, 4, 5, 6, 7, 8, 9, 10>>>>)

\* values nobody uses: y = ~(p + p), an indirect call through p, and a phi
UnusedValuesProgram ==
    MkFunction(<<Parameter, Immediate(1), Binary("IR_ADD", 1, 1), Not(3), CondBranch(1, 2, 3),
                 Immediate(2), Branch(3),
                 Phi(<<PhiArg(1, 2), PhiArg(2, 6)>>), IndirectCall(1, <<>>), Return(1)>>,
               <<<<1, 2, 3, 4, 5>>, <<6, 7>>, <<8, 9, 10>>>>)

\* if (p) { for (;;) {} } return p;   the loop is one block branching to itself
SelfLoopProgram ==
    MkFunction(<<Parameter, CondBranch(1, 2, 3), Branch(2), Return(1)>>,
               <<<<1, 2>>, <<3>>, <<4>>>>)

\* the same loop as two blocks (condition and body) branching to each other
MutualLoopProgram ==
    MkFunction(<<Parameter, CondBranch(1, 2, 4), Branch(3), Branch(2), Return(1)>>,
               <<<<1, 2>>, <<3>>, <<4>>, <<5>>>>)

\* if (c) { k } ; x = phi(p from the entry, k); return x, with c a constant
ConstantDiamondProgram(c) ==
    MkFunction(<<Immediate(c), Parameter, CondBranch(1, 2, 3),
                 Immediate(2), Branch(3),
                 Phi(<<PhiArg(1, 2), PhiArg(2, 4)>>), Return(6)>>,
               <<<<1, 2, 3>>, <<4, 5>>, <<6, 7>>>>)

\* B1: a = p; a = a + a; goto B2     B2: return a    (a is stored twice)
ForwardingProgram ==
    MkFunction(<<Alloca, Parameter, Store(2, 1), Load(1), Binary("IR_ADD", 4, 4), Store(5, 1),
                 Branch(2),
                 Load(1), Return(8)>>,
               <<<<1, 2, 3, 4, 5, 6, 7>>, <<8, 9>>>>)

\* a promotable variable whose load is stored to a variable with two stores
PromotedFeedsKeptProgram ==
    MkFunction(<<Alloca, Alloca, Parameter, Store(3, 1), Load(1), Store(5, 2), Store(3, 2),
                 Load(2), Return(8)>>, <<<<1, 2, 3, 4, 5, 6, 7, 8, 9>>>>)

\* x = callee(p); for (;;) {}   the loop block holds a phi of the call and itself
CallBeforeLoopProgram ==
    MkFunction(<<Parameter, DirectCall(Callee, <<1>>), Branch(2),
                 Phi(<<PhiArg(1, 2), PhiArg(2, 4)>>), Branch(2)>>,
               <<<<1, 2, 3>>, <<4, 5>>>>)

InitialFunctions ==
    {FoldProgram(k, a, b) : k \in FoldedBinaryKinds \cup {"IR_XOR"}, a \in ImmValues, b \in ImmValues}
    \cup {IdentityProgram(k, c, l) : k \in {"IR_ADD", "IR_SUB", "IR_MUL", "IR_DIV"},
                                     c \in ImmValues \cup {Word \div 2}, l \in BOOLEAN}
    \cup {NotProgram(a) : a \in ImmValues}
    \cup {Mem2RegProgram(p, n) : p \in BOOLEAN, n \in 0..2}
    \cup {ChainProgram(d) : d \in BOOLEAN}
    \cup {IndirectCallProgram(d) : d \in BOOLEAN}
    \cup {ConstantBranchProgram(c) : c \in 0..1}
    \cup {CallBeforeLoopProgram}
    \cup {PromotedFeedsKeptProgram}
    \cup {ForwardingProgram}
    \cup {ConstantDiamondProgram(c) : c \in 0..1}
    \cup {SharedDivisorProgram(c) : c \in {2, Word \div 2}}
    \cup {CrossBlockStoreProgram, TwoStoresProgram, TwoStoresOneBlockProgram,
          LoadBeforeStoreProgram, AddressTakenProgram, DiamondProgram,
          PlainTailCallProgram, UnusedCallProgram, PhiTailCallProgram,
          UnusedValuesProgram, SelfLoopProgram, MutualLoopProgram}

(***************************************************************************)
(* The CodegenContext: the functions vector, the entry function, and per   *)
(* function its flags and (for the whole-program analysis) its body.       *)
(***************************************************************************)
\* a function without a body (an extern declaration)
NoBody == MkFunction(<<>>, <<>>)

MkIRFunction(extern, pure, leaf, noreturn, referenced, body) ==
    [is_extern |-> extern, attr_pure |-> pure, attr_leaf |-> leaf,
     attr_noreturn |-> noreturn, is_ever_referenced |-> referenced, body |-> body]

AttrPure(c) == [g \in DOMAIN c.fn |-> c.fn[g].attr_pure]

\* the context of the per-function loop: function 1 is the one optimised,
\* function 2 the extern callee of its calls
DriverContext(calleePure) ==
    [functions |-> <<1, Callee>>, entry |-> 1,
     fn |-> <<MkIRFunction(FALSE, FALSE, FALSE, FALSE, TRUE, NoBody),
              MkIRFunction(TRUE, calleePure, FALSE, FALSE, TRUE, NoBody)>>,
     static_vars |-> <<>>]

(***************************************************************************)
(* The per-function loop of codegen_optimise:                              *)
(*   do { build_dominator_tree; opt_reorder_blocks }                       *)
(*   while (instcombine || dce || mem2reg || jump_threading ||             *)
(*          store_forwarding || tail_call_elim)                            *)
(***************************************************************************)
Crashed(fn) == fn.ice \/ fn.trap \/ fn.overflow

\* where the loop goes after a pass returned `c`: back to the top on true,
\* on to the next pass on false
After(fn, c, next) == IF Crashed(fn) THEN "crashed" ELSE IF c THEN "reorder" ELSE next

Init ==
    /\ input \in InitialFunctions
    /\ f = input
    /\ pre = input
    /\ pc = "reorder"
    /\ changed = FALSE
    /\ last_pass = "none"
    /\ warnings = 0
    /\ ub \in {"hw", "alt"}
    /\ ctx \in {DriverContext(p) : p \in BOOLEAN}
    /\ apc = "idle"
    /\ fi = 1
    /\ LccIdle

Reorder ==
    /\ pc = "reorder"
    /\ f' = opt_reorder_blocks(f)
    /\ pre' = f
    /\ last_pass' = "reorder_blocks"
    /\ pc' = "instcombine"
    /\ UNCHANGED <<changed, warnings, ub, input, ctx, apc, fi>>
    /\ UNCHANGED lccvars

Instcombine ==
    /\ pc = "instcombine"
    /\ LET r == opt_instcombine(f)
       IN /\ f' = r.f
          /\ changed' = r.changed
          /\ pc' = After(r.f, r.changed, "dce")
    /\ pre' = f
    /\ last_pass' = "instcombine"
    /\ UNCHANGED <<warnings, ub, input, ctx, apc, fi>>
    /\ UNCHANGED lccvars

Dce ==
    /\ pc = "dce"
    /\ LET r == opt_dce(f, AttrPure(ctx))
       IN /\ f' = r.f
          /\ changed' = r.changed
          /\ pc' = After(r.f, r.changed, "mem2reg")
    /\ pre' = f
    /\ last_pass' = "dce"
    /\ UNCHANGED <<warnings, ub, input, ctx, apc, fi>>
    /\ UNCHANGED lccvars

Mem2Reg ==
    /\ pc = "mem2reg"
    /\ LET r == opt_mem2reg(f)
       IN /\ f' = r.f
          /\ changed' = r.changed
          /\ warnings' = r.warnings
          /\ pc' = After(r.f, r.changed, "jump_threading")
    /\ pre' = f
    /\ last_pass' = "mem2reg"
    /\ UNCHANGED <<ub, input, ctx, apc, fi>>
    /\ UNCHANGED lccvars

JumpThreading ==
    /\ pc = "jump_threading"
    /\ LET r == opt_jump_threading(f)
       IN /\ f' = r.f
          /\ changed' = r.changed
          /\ pc' = After(r.f, r.changed, "store_forwarding")
    /\ pre' = f
    /\ last_pass' = "jump_threading"
    /\ UNCHANGED <<warnings, ub, input, ctx, apc, fi>>
    /\ UNCHANGED lccvars

StoreForwarding ==
    /\ pc = "store_forwarding"
    /\ LET r == opt_store_forwarding(f)
       IN /\ f' = r.f
          /\ changed' = r.changed
          /\ pc' = After(r.f, r.changed, "tail_call_elim")
    /\ pre' = f
    /\ last_pass' = "store_forwarding"
    /\ UNCHANGED <<warnings, ub, input, ctx, apc, fi>>
    /\ UNCHANGED lccvars

TailCallElim ==
    /\ pc = "tail_call_elim"
    /\ LET r == opt_tail_call_elim(f)
       IN /\ f' = r.f
          /\ changed' = r.changed
          /\ pc' = After(r.f, r.changed, "done")
    /\ pre' = f
    /\ last_pass' = "tail_call_elim"
    /\ UNCHANGED <<warnings, ub, input, ctx, apc, fi>>
    /\ UNCHANGED lccvars

Next ==
    \/ Reorder
    \/ Instcombine
    \/ Dce
    \/ Mem2Reg
    \/ JumpThreading
    \/ StoreForwarding
    \/ TailCallElim

Spec == Init /\ [][Next]_vars

\* the positions of the loop
LoopPositions ==
    {"reorder", "instcombine", "dce", "mem2reg", "jump_threading", "store_forwarding",
     "tail_call_elim", "done", "crashed"}

\* the loop moves on: every step of Next leaves the position it is taken at
LoopStep ==
    /\ pc \notin {"done", "crashed"}
    /\ pc' \in LoopPositions \ {pc}

\* the loop is sequential code: the pass whose turn it is runs
FairSpec == Spec /\ WF_pc(LoopStep)

(***************************************************************************)
(* Whole-program function analysis (opt_check_pure .. opt_analyse_functions)*)
(* c is the CodegenContext, g the function checked. Each check returns the *)
(* context with the flag updated; the flag changed iff the context did.    *)
(***************************************************************************)
BodyInstructions(c, g) ==
    [k \in DOMAIN AllInstructions(c.fn[g].body) |->
        c.fn[g].body.inst[AllInstructions(c.fn[g].body)[k]]]

\* the instruction keeps the function from being pure
nonlocal_side_effect_wrong(c, g, r) == has_side_effects(r, AttrPure(c)) /\ ~ir_is_branch(r)
nonlocal_side_effect(c, g, r) ==
    /\ has_side_effects(r, AttrPure(c))
    /\ ~ir_is_branch(r)
    /\ ~(r.kind = "IR_STORE" /\ c.fn[g].body.inst[r.addr].kind = "IR_ALLOCA")
    /\ ~(r.kind = "IR_CALL" /\ ~r.is_indirect /\ c.fn[r.callee_function].attr_pure)

opt_check_pure(c, g) ==
    LET is == BodyInstructions(c, g)
    IN [c EXCEPT !.fn[g].attr_pure = ~\E k \in DOMAIN is : nonlocal_side_effect(c, g, is[k])]

\* the instruction keeps the function from being a leaf
non_leaf_call(c, g, r) ==
    /\ r.kind = "IR_CALL"
    /\ ~(/\ ~r.is_indirect
         /\ r.tail_call
         /\ (r.callee_function = g \/ c.fn[r.callee_function].attr_leaf))

opt_check_leaf(c, g) ==
    LET is == BodyInstructions(c, g)
    IN [c EXCEPT !.fn[g].attr_leaf = ~\E k \in DOMAIN is : non_leaf_call(c, g, is[k])]

\* the instruction shows that the function may return
may_return(c, r) ==
    IF r.kind = "IR_CALL" /\ r.tail_call
    THEN r.is_indirect \/ ~c.fn[r.callee_function].attr_noreturn
    ELSE r.kind = "IR_RETURN"

opt_check_noreturn(c, g) ==
    LET is == BodyInstructions(c, g)
    IN [c EXCEPT !.fn[g].attr_noreturn = ~\E k \in DOMAIN is : may_return(c, is[k])]

\* the function the instruction references, or Nil
check_function_references(r) ==
    CASE r.kind = "IR_FUNC_REF" -> r.function_ref
      [] r.kind = "IR_CALL" /\ ~r.is_indirect -> r.callee_function
      [] OTHER -> Nil

\* the functions referenced by an instruction of a function of the context
\* or by the initialiser of a static variable (static_vars holds the
\* initialisers of the variables that have one)
referenced_functions(c) ==
    (UNION {{check_function_references(BodyInstructions(c, c.functions[n])[k]) :
                k \in DOMAIN BodyInstructions(c, c.functions[n])} : n \in DOMAIN c.functions}
     \cup {check_function_references(c.static_vars[k]) : k \in DOMAIN c.static_vars}) \ {Nil}

mark_references(c) ==
    [c EXCEPT !.fn = [g \in DOMAIN @ |->
        [@[g] EXCEPT !.is_ever_referenced = @ \/ g = c.entry \/ g \in referenced_functions(c)]]]

unreferenced_wrong(c, g) == FALSE
\* the function is freed and removed from the functions vector
unreferenced(c, g) == ~c.fn[g].is_ever_referenced

remove_unreferenced(c) ==
    [c EXCEPT !.functions = SelectSeq(@, LAMBDA g : ~unreferenced(c, g))]

(***************************************************************************)
(* Properties of the IR the claims are stated in.                          *)
(***************************************************************************)
OptimiserPasses ==
    {"instcombine", "dce", "mem2reg", "store_forwarding", "jump_threading"}

\* u is in users(v) if and only if v is an operand of u
DefUseConsistent(fn) ==
    \A v \in InstIds(fn) : \A u \in Live(fn) :
        (u \in fn.users[v]) <=> (v \in Operands(fn.inst[u]))

PhisOf(fn, b) == {i \in SeqToSet(fn.instructions[b]) : fn.inst[i].kind = "IR_PHI"}

\* one incoming pair per CFG predecessor of the phi's block
PhiPredecessorsMatch(fn) ==
    \A b \in Listed(fn) : \A i \in PhisOf(fn, b) :
        LET as == fn.inst[i].phi_args
        IN /\ {as[k].block : k \in DOMAIN as} = Predecessors(fn, b)
           /\ Len(as) = Cardinality(Predecessors(fn, b))

IndexIn(fn, i) ==
    LET is == fn.instructions[parent_block(fn, i)] IN CHOOSE n \in DOMAIN is : is[n] = i

\* the definition of v dominates its use by u
DefDominatesUse(fn, v, u) ==
    /\ v \in Live(fn)
    /\ IF parent_block(fn, v) = parent_block(fn, u)
       THEN IndexIn(fn, v) < IndexIn(fn, u)
       ELSE Dominates(fn, parent_block(fn, v), parent_block(fn, u))

SSADominance(fn) ==
    \A u \in Live(fn) :
        IF fn.inst[u].kind = "IR_PHI"
        THEN \A k \in DOMAIN fn.inst[u].phi_args :
                LET a == fn.inst[u].phi_args[k]
                IN a.value \in Live(fn) /\ Dominates(fn, parent_block(fn, a.value), a.block)
        ELSE \A v \in Operands(fn.inst[u]) : DefDominatesUse(fn, v, u)

(***************************************************************************)
(* C1. Tail-call soundness: for every call marked tail_call, on every      *)
(* path from the call to a return only phis and branches lie in between    *)
(* and the value returned is the call's result (the call itself, or a phi  *)
(* whose incoming value along the edge taken is the call or such a phi).   *)
(***************************************************************************)
RECURSIVE PathsReturnCall(_, _, _, _, _, _, _)
\* `is` are the instructions still ahead in block `cur`, entered from `pred`;
\* `eq` are the phis that hold the call's result on the path walked so far
PathsReturnCall(fn, c, eq, is, cur, pred, fuel) ==
    IF fuel = 0 THEN TRUE
    ELSE IF is = <<>> THEN FALSE
    ELSE LET i == Head(is)  r == fn.inst[i]
         IN CASE r.kind = "IR_PHI" ->
                   LET as == r.phi_args
                       vals == {as[k].value : k \in {n \in DOMAIN as : as[n].block = pred}}
                       carries == vals # {} /\ \A v \in vals : v = c \/ v \in eq
                   IN PathsReturnCall(fn, c, IF carries THEN eq \cup {i} ELSE eq \ {i},
                                      Tail(is), cur, pred, fuel)
              [] r.kind = "IR_RETURN" -> r.operand = c \/ r.operand \in eq
              [] r.kind = "IR_BRANCH" ->
                   PathsReturnCall(fn, c, eq, fn.instructions[r.destination_block],
                                   r.destination_block, cur, fuel - 1)
              [] r.kind = "IR_BRANCH_CONDITIONAL" ->
                   /\ PathsReturnCall(fn, c, eq, fn.instructions[r.then], r.then, cur, fuel - 1)
                   /\ PathsReturnCall(fn, c, eq, fn.instructions[r.else_], r.else_, cur, fuel - 1)
              [] r.kind = "IR_UNREACHABLE" -> TRUE
              [] OTHER -> FALSE

TailCalls(fn) == {c \in Live(fn) : fn.inst[c].kind = "IR_CALL" /\ fn.inst[c].tail_call}

\* C1: every call marked tail_call is followed, on every path to a return, by
\* phis and branches only, and the return yields the call's result
TailCallSoundness ==
    \A c \in TailCalls(f) :
        PathsReturnCall(f, c, {}, InstructionsAfter(f, c), parent_block(f, c), Nil, MaxDepth)

(***************************************************************************)
(* C2. Def-use consistency after every optimiser pass: a pass entered with *)
(* consistent user lists returns with u in users(v) iff v is an operand of *)
(* u, for every value v and instruction u still in the function.           *)
(***************************************************************************)
\* C2: a pass entered with consistent user lists leaves them consistent
DefUseConsistentAfterPass ==
    (last_pass \in OptimiserPasses /\ ~Crashed(f) /\ DefUseConsistent(pre))
        => DefUseConsistent(f)

(***************************************************************************)
(* C3. After jump threading removed a branch-only block, every phi has     *)
(* exactly one incoming pair per CFG predecessor of its block.             *)
(***************************************************************************)
\* C3: after opt_jump_threading removed a block, the phis of every block name
\* exactly the block's CFG predecessors
PhisMatchAfterJumpThreading ==
    (last_pass = "jump_threading" /\ Listed(f) # Listed(pre) /\ PhiPredecessorsMatch(pre))
        => PhiPredecessorsMatch(f)

(***************************************************************************)
(* C4. opt_mem2reg preserves SSA dominance: entered with every definition  *)
(* dominating its uses, it returns with every definition dominating its    *)
(* uses.                                                                   *)
(***************************************************************************)
\* C4: after opt_mem2reg promoted an alloca of a function in SSA form, every
\* definition still dominates its uses
Mem2RegKeepsDominance ==
    (last_pass = "mem2reg" /\ changed /\ SSADominance(pre)) => SSADominance(f)

(***************************************************************************)
(* C5. Folding preservation. The reference value of a op b is computed on  *)
(* the bit sets of the operands, independently of the folding code.        *)
(***************************************************************************)
Bits(a) == {k \in 0..(WordBits - 1) : (a \div Pow2(k)) % 2 = 1}
RECURSIVE FromBits(_)
FromBits(S) == IF S = {} THEN 0 ELSE LET k == CHOOSE x \in S : TRUE IN Pow2(k) + FromBits(S \ {k})

ReferenceValue(kind, a, b) ==
    CASE kind = "IR_ADD" -> (a + b) % Word
      [] kind = "IR_SUB" -> (a + Word - b) % Word
      [] kind = "IR_MUL" -> (a * b) % Word
      [] kind = "IR_DIV" -> a \div b
      [] kind = "IR_MOD" -> a % b
      [] kind = "IR_SHL" -> FromBits({k + b : k \in Bits(a)} \cap (0..(WordBits - 1)))
      [] kind = "IR_SHR" -> FromBits({k - b : k \in Bits(a)} \cap (0..(WordBits - 1)))
      [] kind = "IR_AND" -> FromBits(Bits(a) \cap Bits(b))
      [] kind = "IR_OR" -> FromBits(Bits(a) \cup Bits(b))
      [] kind = "IR_XOR" -> FromBits((Bits(a) \cup Bits(b)) \ (Bits(a) \cap Bits(b)))

Returns(fn) == {i \in Live(fn) : fn.inst[i].kind = "IR_RETURN"}

\* the function returns the immediate v, and no binary instruction remains
ReturnsLiterally(fn, v) ==
    /\ Returns(fn) # {}
    /\ \A r \in Returns(fn) :
          LET o == fn.inst[r].operand
          IN o \in Live(fn) /\ fn.inst[o].kind = "IR_IMMEDIATE" /\ fn.inst[o].imm = v
    /\ \A i \in Live(fn) : fn.inst[i].kind \notin BinaryKinds

\* a op b is defined by C: the divisor is not 0 (the claim's b != 0) and a
\* shift count is below the width
OperationDefined(kind, b) ==
    b # 0 /\ (kind \in {"IR_SHL", "IR_SHR"} => ShiftCountDefined(b))

FoldingPreservedFor(kinds) ==
    pc = "done" =>
        \A kind \in kinds : \A a \in ImmValues : \A b \in ImmValues :
            (input = FoldProgram(kind, a, b) /\ OperationDefined(kind, b))
                => ReturnsLiterally(f, ReferenceValue(kind, a, b))

ClaimedFoldKinds ==
    {"IR_ADD", "IR_SUB", "IR_MUL", "IR_DIV", "IR_MOD", "IR_SHL", "IR_SHR", "IR_AND", "IR_OR"}

StoresTo(fn, a) == {u \in fn.users[a] : fn.inst[u].kind = "IR_STORE" /\ fn.inst[u].addr = a}
LoadsOf(fn, a) == {u \in fn.users[a] : fn.inst[u].kind = "IR_LOAD" /\ fn.inst[u].operand = a}
TheStore(fn, a) == CHOOSE s \in StoresTo(fn, a) : TRUE

Position(fn, i) ==
    LET is == AllInstructions(fn) IN CHOOSE n \in DOMAIN is : is[n] = i

Promotable(fn, a) ==
    /\ a \in Live(fn)
    /\ fn.inst[a].kind = "IR_ALLOCA"
    /\ Cardinality(StoresTo(fn, a)) = 1
    /\ fn.inst[TheStore(fn, a)].value # a
    /\ fn.users[a] = StoresTo(fn, a) \cup LoadsOf(fn, a)
    /\ fn.users[a] \subseteq Live(fn)
    /\ \A l \in LoadsOf(fn, a) : Position(fn, TheStore(fn, a)) < Position(fn, l)

PromotableAllocas(fn) == {a \in InstIds(fn) : Promotable(fn, a)}

\* the value stored to a, as the code wrote it
StoredValue(fn, a) == fn.inst[TheStore(fn, a)].value

RECURSIVE FinalValue(_, _, _)
\* the value stored to a, looked through the loads of promoted allocas
FinalValue(fn, v, fuel) ==
    IF fuel > 0 /\ fn.inst[v].kind = "IR_LOAD" /\ Promotable(fn, fn.inst[v].operand)
    THEN FinalValue(fn, StoredValue(fn, fn.inst[v].operand), fuel - 1)
    ELSE v

Promoted(a) ==
    /\ changed
    /\ a \notin Live(f)
    /\ TheStore(pre, a) \notin Live(f)
    /\ LoadsOf(pre, a) \cap Live(f) = {}

InstcombineReportsChange ==
    (last_pass = "instcombine" /\ ~Crashed(f)) => (changed <=> f # pre)

(***************************************************************************)
(* C10. Round trip: once the per-function loop has terminated, running     *)
(* opt_instcombine and then opt_dce again returns false from both.         *)
(***************************************************************************)
\* C10: after the per-function loop has ended, opt_instcombine and then opt_dce
\* both return false
RoundTripReportsNoChange ==
    pc = "done" =>
        /\ ~opt_instcombine(f).changed
        /\ ~opt_dce(opt_instcombine(f).f, AttrPure(ctx)).changed

(***************************************************************************)
(* opt_analyse_functions as a state machine: one iteration of its do-while *)
(* loop is the three attribute checks for each function in turn, then the  *)
(* steps references and remove.                                            *)
(***************************************************************************)
NumFunctions == 3

\* a function body: `g(); return` (callee # Nil), or `return`
BodyCalling(callee, tail) ==
    IF callee = Nil
    THEN MkFunction(<<Immediate(0), Return(1)>>, <<<<1, 2>>>>)
    ELSE MkFunction(<<[DirectCall(callee, <<>>) EXCEPT !.tail_call = tail], Return(1)>>,
                    <<<<1, 2>>>>)

\* function 1 is the entry function; function NumFunctions + 1 is extern.
\* On entry any set of functions is marked pure and all or none of them
\* leaf and noreturn; the module has no static variable or one that is
\* initialised with the address of the last function.
Modules ==
    {[functions |-> [k \in 1..(NumFunctions + 1) |-> k],
      entry |-> 1,
      fn |-> [g \in 1..(NumFunctions + 1) |->
                IF g = NumFunctions + 1
                THEN MkIRFunction(TRUE, FALSE, FALSE, FALSE, FALSE, NoBody)
                ELSE MkIRFunction(FALSE, pure[g], marked, marked, FALSE,
                                  BodyCalling(callee[g], tail))],
      static_vars |-> static] :
        callee \in [1..NumFunctions -> 0..(NumFunctions + 1)],
        tail \in BOOLEAN,
        pure \in [1..NumFunctions -> BOOLEAN],
        marked \in BOOLEAN,
        static \in {<<>>, <<FuncRef(NumFunctions)>>}}

InitAnalyse ==
    /\ ctx = DriverContext(FALSE)
    /\ apc = "idle"
    /\ fi = 1
    /\ LccIdle
    /\ changed = FALSE
    /\ f = FoldProgram("IR_ADD", 0, 0)
    /\ input = f
    /\ pre = f
    /\ pc = "analyse"
    /\ last_pass = "none"
    /\ warnings = 0
    /\ ub = "hw"

\* opt_analyse_functions is called on a module
AnalyseCall ==
    /\ apc = "idle"
    /\ ctx' \in Modules
    /\ apc' = "attributes"
    /\ changed' = FALSE
    /\ UNCHANGED <<f, pc, pre, last_pass, warnings, ub, input, fi>>
    /\ UNCHANGED lccvars

\* a turn of the loop over ctx->functions starts: an extern function is
\* skipped, another one has is_ever_referenced cleared and opt_check_pure run
AnalyseCheckPure ==
    /\ apc = "attributes"
    /\ fi <= Len(ctx.functions)
    /\ LET g == ctx.functions[fi]
       IN IF ctx.fn[g].is_extern
          THEN /\ fi' = fi + 1
               /\ UNCHANGED <<ctx, changed, apc>>
          ELSE /\ ctx' = opt_check_pure([ctx EXCEPT !.fn[g].is_ever_referenced = FALSE], g)
               /\ changed' = (changed \/ ctx'.fn[g].attr_pure # ctx.fn[g].attr_pure)
               /\ apc' = "check_leaf"
               /\ UNCHANGED fi
    /\ UNCHANGED <<f, pc, pre, last_pass, warnings, ub, input>>
    /\ UNCHANGED lccvars

AnalyseCheckLeaf ==
    /\ apc = "check_leaf"
    /\ ctx' = opt_check_leaf(ctx, ctx.functions[fi])
    /\ changed' = (changed \/ ctx' # ctx)
    /\ apc' = "check_noreturn"
    /\ UNCHANGED <<f, pc, pre, last_pass, warnings, ub, input, fi>>
    /\ UNCHANGED lccvars

AnalyseCheckNoreturn ==
    /\ apc = "check_noreturn"
    /\ ctx' = opt_check_noreturn(ctx, ctx.functions[fi])
    /\ changed' = (changed \/ ctx' # ctx)
    /\ apc' = "attributes"
    /\ fi' = fi + 1
    /\ UNCHANGED <<f, pc, pre, last_pass, warnings, ub, input>>
    /\ UNCHANGED lccvars

AnalyseReferences ==
    /\ apc = "attributes"
    /\ fi > Len(ctx.functions)
    /\ ctx' = mark_references(ctx)
    /\ apc' = "remove"
    /\ UNCHANGED <<f, pc, changed, pre, last_pass, warnings, ub, input, fi>>
    /\ UNCHANGED lccvars

AnalyseRemove ==
    /\ apc = "remove"
    /\ ctx' = remove_unreferenced(ctx)
    /\ LET again == changed \/ \E k \in DOMAIN ctx.functions : unreferenced(ctx, ctx.functions[k])
       IN /\ changed' = IF again THEN FALSE ELSE changed
          /\ apc' = IF again THEN "attributes" ELSE "returned"
    /\ fi' = 1
    /\ UNCHANGED <<f, pc, pre, last_pass, warnings, ub, input>>
    /\ UNCHANGED lccvars

\* a step of the do-while loop
AnalyseStep ==
    \/ AnalyseCheckPure
    \/ AnalyseCheckLeaf
    \/ AnalyseCheckNoreturn
    \/ AnalyseReferences
    \/ AnalyseRemove

NextAnalyse ==
    \/ AnalyseCall
    \/ AnalyseStep

SpecAnalyse == InitAnalyse /\ [][NextAnalyse]_vars

\* the loop is sequential code: a step that can be taken is taken
FairSpecAnalyse == SpecAnalyse /\ WF_vars(AnalyseStep)

(***************************************************************************)
(* Claims about opt_analyse_functions.                                     *)
(***************************************************************************)
FunctionsReferencedBy(c, g) ==
    {check_function_references(BodyInstructions(c, g)[k]) :
        k \in DOMAIN BodyInstructions(c, g)} \ {Nil}

RECURSIVE ReachableFunctionsFrom(_, _)
ReachableFunctionsFrom(c, gs) ==
    LET more == gs \cup UNION {FunctionsReferencedBy(c, g) : g \in gs}
    IN IF more = gs THEN gs ELSE ReachableFunctionsFrom(c, more)

\* reachable from the entry function or from a static initialiser through
\* direct calls and func_refs
ReachableFunctions(c) ==
    ReachableFunctionsFrom(c,
        {c.entry} \cup ({check_function_references(c.static_vars[k]) :
                            k \in DOMAIN c.static_vars} \ {Nil}))

\* C7: when opt_analyse_functions returns, every function still in the
\* module is reachable from the entry function or from a static initialiser
\* through direct calls and func_refs.
OnlyReachableFunctionsRemain ==
    apc = "returned" => SeqToSet(ctx.functions) \subseteq ReachableFunctions(ctx)

\* C8: opt_analyse_functions returns, whatever the flags on entry: the loop
\* reaches an iteration in which no flag flips and no function is deleted.
AnalyseFunctionsTerminates == (apc = "attributes") ~> (apc = "returned")

(***************************************************************************)
(* C11. Block reordering is idempotent.                                    *)
(***************************************************************************)
\* C11: build_dominator_tree + opt_reorder_blocks applied to a function that
\* was just reordered yields the same block sequence
ReorderIdempotent ==
    last_pass = "reorder_blocks" => opt_reorder_blocks(f).blocks = f.blocks

(***************************************************************************)
(* C12. A div of two immediates whose divisor is 0 is left intact.         *)
(***************************************************************************)
DivsByZero(fn) ==
    {i \in Live(fn) : fn.inst[i].kind = "IR_DIV" /\ is_immediate_pair(fn, i) /\ imm_rhs(fn, i) = 0}

\* C12: opt_instcombine leaves a div of two immediates with divisor 0 as it
\* was (kind div, both operands), and the compiler evaluates no division by 0
DivByZeroLeftIntact ==
    last_pass = "instcombine" =>
        \A i \in DivsByZero(pre) : f.inst[i] = pre.inst[i] /\ ~f.trap

(***************************************************************************)
(* C13. Division by the constant 1 forwards the dividend.                  *)
(***************************************************************************)
DivsByOne(fn) ==
    {i \in Live(fn) : /\ fn.inst[i].kind = "IR_DIV"
                      /\ ~IsImm(fn, fn.inst[i].lhs)
                      /\ IsImm(fn, fn.inst[i].rhs)
                      /\ fn.inst[fn.inst[i].rhs].imm = 1}

\* C13: after opt_instcombine every use of a div(x, 1) with x not an immediate
\* refers to the dividend x, not to the constant 1
DivByOneForwardsDividend ==
    last_pass = "instcombine" =>
        \A i \in DivsByOne(pre) : \A u \in pre.users[i] :
            f.inst[u] = ReplaceOperand(pre.inst[u], i, pre.inst[i].lhs)

(***************************************************************************)
(* C14. Division by a power of two becomes an arithmetic shift right.      *)
(***************************************************************************)
\* the divisions of a non-immediate x by an immediate 2^k, k >= 1
DivsByPowerOfTwo(fn) ==
    {i \in Live(fn) : /\ fn.inst[i].kind = "IR_DIV"
                      /\ ~IsImm(fn, fn.inst[i].lhs)
                      /\ IsImm(fn, fn.inst[i].rhs)
                      /\ fn.inst[fn.inst[i].rhs].imm >= 2
                      /\ power_of_two(fn.inst[fn.inst[i].rhs].imm)}

\* C14: opt_instcombine turns every div(x, 2^k), x not an immediate and k >= 1,
\* into sar with lhs x and rhs the immediate k, and reports a change
DivByPowerOfTwoBecomesSar ==
    last_pass = "instcombine" /\ ~f.trap =>
        \A i \in DivsByPowerOfTwo(pre) :
            ~IsImm(f, pre.inst[i].lhs) =>
                /\ f.inst[i].kind = "IR_SAR"
                /\ f.inst[i].lhs = pre.inst[i].lhs
                /\ IsImm(f, f.inst[i].rhs)
                /\ f.inst[f.inst[i].rhs].imm = ctzll(pre.inst[pre.inst[i].rhs].imm)
                /\ changed

(***************************************************************************)
(* C15. What opt_dce removes.                                              *)
(***************************************************************************)
Removed == Live(pre) \ Live(f)

\* the users an instruction of `pre` has when opt_dce visits it: those it had
\* when the pass started, less the ones removed earlier in the traversal
UsersAtVisit(i) ==
    LET order == AllInstructions(pre)
        at(x) == CHOOSE k \in DOMAIN order : order[k] = x
    IN pre.users[i] \ {j \in Removed : at(j) < at(i)}

\* terminators, stores, phis, and the calls that may have an effect
NeverRemoved(r) ==
    \/ r.kind \in TerminatorKinds \cup {"IR_STORE", "IR_PHI"}
    \/ r.kind = "IR_CALL" /\ (r.is_indirect \/ r.tail_call \/ ~AttrPure(ctx)[r.callee_function])

\* C15: opt_dce removes an instruction iff it has no users when visited and
\* has_side_effects is false for it; it never removes a terminator, a store,
\* a phi, an indirect call, a call to a non-pure callee or a tail call
DceRemovesExactlyTheDead ==
    last_pass = "dce" =>
        /\ \A i \in Live(pre) :
              i \in Removed <=>
                  UsersAtVisit(i) = {} /\ ~has_side_effects(pre.inst[i], AttrPure(ctx))
        /\ \A i \in Removed : ~NeverRemoved(pre.inst[i])

\* opt_dce removed something and kept a user-less store, phi or call
DceRemovesExactlyTheDeadWitness ==
    /\ last_pass = "dce"
    /\ Removed # {}
    /\ \E i \in Live(f) : pre.users[i] = {} /\ f.inst[i].kind = "IR_PHI"
    /\ \E i \in Live(f) : pre.users[i] = {} /\ f.inst[i].kind = "IR_CALL"
    /\ \E i \in Live(f) : UsersAtVisit(i) # {} /\ f.users[i] = {}

(***************************************************************************)
(* The five function passes applied in any order (each call is one step).  *)
(***************************************************************************)
InitPasses ==
    /\ input \in InitialFunctions
    /\ f = input
    /\ pre = input
    /\ pc = "passes"
    /\ changed = FALSE
    /\ last_pass = "none"
    /\ warnings = 0
    /\ ub \in {"hw", "alt"}
    /\ ctx \in {DriverContext(p) : p \in BOOLEAN}
    /\ apc = "idle"
    /\ fi = 1
    /\ LccIdle

\* the common part of a pass step: r is the [f, changed] the pass returned
Returned(r, name) ==
    /\ pc = "passes"
    /\ f' = r.f
    /\ changed' = r.changed
    /\ pre' = f
    /\ last_pass' = name
    /\ pc' = IF Crashed(r.f) THEN "crashed" ELSE "passes"
    /\ UNCHANGED <<ub, input, ctx, apc, fi>>
    /\ UNCHANGED lccvars

PassInstcombine == Returned(opt_instcombine(f), "instcombine") /\ UNCHANGED warnings
PassDce == Returned(opt_dce(f, AttrPure(ctx)), "dce") /\ UNCHANGED warnings
PassMem2Reg == Returned(opt_mem2reg(f), "mem2reg") /\ warnings' = opt_mem2reg(f).warnings
PassStoreForwarding == Returned(opt_store_forwarding(f), "store_forwarding") /\ UNCHANGED warnings
PassJumpThreading == Returned(opt_jump_threading(f), "jump_threading") /\ UNCHANGED warnings

NextPasses ==
    \/ PassInstcombine
    \/ PassDce
    \/ PassMem2Reg
    \/ PassStoreForwarding
    \/ PassJumpThreading

SpecPasses == InitPasses /\ [][NextPasses]_vars

(***************************************************************************)
(* C16. The terminator invariant.                                          *)
(***************************************************************************)
WellTerminated(fn, b) ==
    LET is == fn.instructions[b]
    IN /\ is # <<>>
       /\ \A k \in DOMAIN is : ir_is_branch(fn.inst[is[k]]) <=> k = Len(is)

\* C16: after any sequence of opt_instcombine, opt_dce, opt_mem2reg,
\* opt_store_forwarding and opt_jump_threading every remaining block is
\* non-empty and its last instruction is its only terminator
TerminatorInvariant ==
    pc = "passes" => \A b \in Listed(f) : WellTerminated(f, b)

\* a sequence of passes that rewrote a terminator and removed a block
TerminatorInvariantWitness ==
    /\ pc = "passes"
    /\ last_pass # "none"
    /\ Listed(f) # Listed(input)
    /\ \E b \in Listed(f) : f.inst[LastInst(f, b)] # input.inst[LastInst(f, b)]

(***************************************************************************)
(* C20. Jump threading leaves no reference to a removed block.             *)
(***************************************************************************)
\* the blocks an instruction names
BlockRefs(r) ==
    CASE r.kind = "IR_BRANCH" -> {r.destination_block}
      [] r.kind = "IR_BRANCH_CONDITIONAL" -> {r.then, r.else_}
      [] r.kind = "IR_PHI" -> {r.phi_args[k].block : k \in DOMAIN r.phi_args}
      [] OTHER -> {}

\* C20: after opt_jump_threading no branch, conditional branch or phi of a
\* remaining block names a block the pass removed
NoReferenceToRemovedBlock ==
    last_pass = "jump_threading" =>
        \A i \in Live(f) : BlockRefs(f.inst[i]) \cap (Listed(pre) \ Listed(f)) = {}

(***************************************************************************)
(* lcc: the IR Module (lib/lcc/ir/module.cc).                              *)
(* A value is a pair <<tag, n>>: the function "F", a block "B", an         *)
(* instruction "I" (numbered in block order), the parameter "P", the       *)
(* constant "C". An instruction is [kind, ops, bits]; a function is        *)
(* [name, return_bits, blocks, inst] with blocks the instruction numbers   *)
(* of each block.                                                          *)
(***************************************************************************)
MaxInsts == 4
RegisterBits == 64
LargeBits == 192
FirstVirtualRegister == 1056

\* the optimiser of the old code base before anything ran
OptIdle ==
    /\ f = NoBody
    /\ input = NoBody
    /\ pre = NoBody
    /\ pc = "idle"
    /\ changed = FALSE
    /\ last_pass = "none"
    /\ warnings = 0
    /\ ub = "hw"
    /\ ctx = DriverContext(FALSE)
    /\ apc = "idle"
    /\ fi = 1

Targets == {"x86_64_linux", "x86_64_windows"}
is_x64(t) == t \in {"x86_64_linux", "x86_64_windows"}
is_windows(t) == t = "x86_64_windows"

LccUnaryKinds == {"ZExt", "SExt", "Trunc", "Bitcast", "Neg", "Compl"}
LccBinaryKinds ==
    {"Add", "Sub", "Mul", "SDiv", "UDiv", "SRem", "URem", "Shl", "Sar", "Shr", "And", "Or",
     "Xor", "Eq", "Ne", "SLt", "SLe", "SGt", "SGe", "ULt", "ULe", "UGt", "UGe"}
NonInstructionKinds ==
    {"Function", "Block", "IntegerConstant", "ArrayConstant", "Poison", "GlobalVariable",
     "Parameter"}

\* the MInst::Kind of a unary or binary instruction; "ICE" is LCC_UNREACHABLE
ir_nary_inst_kind_to_mir(kind) ==
    IF kind \in LccUnaryKinds \cup LccBinaryKinds THEN kind ELSE "ICE"

\* the kinds the model's functions are written in
BodyKinds == {"Alloca", "Load", "Store", "Neg", "Add", "Call"}
BlockEnds == {"Return", "Branch"}

RECURSIVE SeqsUpTo(_, _)
SeqsUpTo(S, n) ==
    IF n = 0 THEN {<<>>}
    ELSE LET shorter == SeqsUpTo(S, n - 1)
         IN shorter \cup {Append(s, x) : s \in {q \in shorter : Len(q) = n - 1}, x \in S}

\* a function written as the kinds of its blocks; every instruction works on
\* the value before it (the parameter for the first one)
LccFunction(return_bits, kinds) ==
    LET flat == Flatten(kinds)
        first(b) == Len(Flatten(SubSeq(kinds, 1, b - 1))) + 1
        prev(i) == IF i = 1 THEN <<"P", 0>> ELSE <<"I", i - 1>>
        ops(i) ==
            CASE flat[i] = "Load" -> <<prev(i)>>
              [] flat[i] = "Store" -> <<prev(i), <<"P", 0>>>>
              [] flat[i] = "Neg" -> <<prev(i)>>
              [] flat[i] = "Add" -> <<prev(i), <<"C", 1>>>>
              [] flat[i] = "Return" -> <<prev(i)>>
              [] flat[i] = "Call" -> <<<<"F", 0>>>>
              [] OTHER -> <<>>
        \* the value a large-return function returns is loaded whole
        bits(i) ==
            IF flat[i] = "Load" /\ i < Len(flat) /\ flat[i + 1] = "Return"
            THEN return_bits ELSE RegisterBits
    IN [name |-> "f", return_bits |-> return_bits, params |-> <<"i64">>,
        blocks |-> [b \in DOMAIN kinds |-> [k \in DOMAIN kinds[b] |-> first(b) + k - 1]],
        inst |-> [i \in DOMAIN flat |-> [kind |-> flat[i], ops |-> ops(i), bits |-> bits(i)]]]

RECURSIVE SplitBlocks(_, _)
\* the instruction kinds of a function cut into blocks after every terminator
SplitBlocks(kinds, block) ==
    IF kinds = <<>> THEN <<>>
    ELSE IF Head(kinds) \in BlockEnds
         THEN <<Append(block, Head(kinds))>> \o SplitBlocks(Tail(kinds), <<>>)
         ELSE SplitBlocks(Tail(kinds), Append(block, Head(kinds)))

LccFunctions ==
    {LccFunction(r, SplitBlocks(ks, <<>>)) :
        r \in {RegisterBits, LargeBits},
        ks \in {s \in SeqsUpTo(BodyKinds \cup BlockEnds, MaxInsts) :
                    s # <<>> /\ s[Len(s)] \in BlockEnds}}

(***************************************************************************)
(* Module::lower                                                           *)
(***************************************************************************)
\* LCC_ASSERT(false, ...) for a load or store of more than 8 bytes
lower_instruction(r) == r.kind \in {"Load", "Store"} /\ r.bits > RegisterBits

\* TRUE when lowering ran into an assertion (an internal compiler error).
\* Nothing in Module::lower writes to the module.
lower_ice(t, c) ==
    IF is_x64(t)
    THEN \/ \E n \in DOMAIN c : \E i \in DOMAIN c[n].inst : lower_instruction(c[n].inst[i])
         \/ (~is_windows(t) /\ t = "x86_64_linux")
    ELSE TRUE

(***************************************************************************)
(* Module::mir                                                             *)
(***************************************************************************)
\* virts is a function on the values that have a register, n the counter
assign_virtual_register(vs, v) ==
    IF v \in DOMAIN vs.virts THEN vs
    ELSE [virts |-> [x \in DOMAIN vs.virts \cup {v} |->
                        IF x = v THEN vs.n + 1 ELSE vs.virts[x]],
          n |-> vs.n + 1, ice |-> vs.ice]

RECURSIVE assign_all(_, _)
assign_all(vs, values) ==
    IF values = <<>> THEN vs
    ELSE assign_all(assign_virtual_register(vs, Head(values)), Tail(values))

\* first loop, one instruction: its own register, then its operands'
mir_assign_instruction(vs, i, r) ==
    LET own == assign_virtual_register(vs, <<"I", i>>)
    IN CASE r.kind \in NonInstructionKinds \cup {"Call", "GetElementPtr", "Intrinsic"} ->
                [own EXCEPT !.ice = TRUE]
         [] r.kind \in {"Copy", "Alloca", "Unreachable", "Branch"} -> own
         [] OTHER -> assign_all(own, r.ops)

RECURSIVE mir_assign_block(_, _, _)
mir_assign_block(vs, fn, is) ==
    IF is = <<>> \/ vs.ice THEN vs
    ELSE mir_assign_block(mir_assign_instruction(vs, Head(is), fn.inst[Head(is)]), fn, Tail(is))

RECURSIVE mir_assign_blocks(_, _, _)
mir_assign_blocks(vs, fn, b) ==
    IF b > Len(fn.blocks) \/ vs.ice THEN vs
    ELSE mir_assign_blocks(
            mir_assign_block(assign_virtual_register(vs, <<"B", b>>), fn, fn.blocks[b]),
            fn, b + 1)

RECURSIVE mir_assign_functions(_, _, _)
mir_assign_functions(vs, c, n) ==
    IF n > Len(c) \/ vs.ice THEN vs
    ELSE mir_assign_functions(
            mir_assign_blocks(assign_virtual_register(vs, <<"F", n>>), c[n], 1), c, n + 1)

\* virts[v]: operator[] of the map gives 0 for a value without a register
Virt(vs, v) == IF v \in DOMAIN vs.virts THEN vs.virts[v] ELSE 0
MOperandRegister(n) == [reg |-> n]
MOperandImmediate(n) == [imm |-> n]
MInst(kind, operands) == [kind |-> kind, operands |-> operands]

\* second loop, one instruction: [insts, ice] with insts the MInsts added to
\* the block (none or one) and ice set by LCC_UNREACHABLE and LCC_TODO
Added(insts) == [insts |-> insts, ice |-> FALSE]
MirICE == [insts |-> <<>>, ice |-> TRUE]

mir_instruction(vs, r) ==
    CASE r.kind \in NonInstructionKinds -> MirICE
      [] r.kind = "Copy" -> Added(<<>>)
      [] r.kind = "Alloca" -> Added(<<MInst("Alloca", <<MOperandImmediate(r.bits)>>)>>)
      [] r.kind \in {"Call", "GetElementPtr", "Intrinsic", "Phi", "Branch", "CondBranch",
                     "Unreachable"} -> MirICE
      [] r.kind = "Store" ->
            Added(<<MInst("Store", <<MOperandRegister(Virt(vs, r.ops[1])),
                                     MOperandRegister(Virt(vs, r.ops[2]))>>)>>)
      \* the load is built and dropped: there is no bb.add_instruction(load)
      [] r.kind = "Load" -> Added(<<>>)
      [] r.kind = "Return" ->
            Added(<<MInst("Return",
                          [k \in DOMAIN r.ops |-> MOperandRegister(Virt(vs, r.ops[k]))])>>)
      [] OTHER ->
            Added(<<MInst(ir_nary_inst_kind_to_mir(r.kind),
                          [k \in DOMAIN r.ops |-> MOperandRegister(Virt(vs, r.ops[k]))])>>)

RECURSIVE mir_block(_, _, _)
\* [insts, ice]: the MBlock of an IR block
mir_block(vs, fn, is) ==
    IF is = <<>> THEN Added(<<>>)
    ELSE LET m == mir_instruction(vs, fn.inst[Head(is)])
             rest == mir_block(vs, fn, Tail(is))
         IN [insts |-> m.insts \o rest.insts, ice |-> m.ice \/ rest.ice]

MFunction(fn, blocks) == [name |-> fn.name, blocks |-> blocks]

\* [func, ice]
mir_function(vs, fn) ==
    LET bs == [b \in DOMAIN fn.blocks |-> mir_block(vs, fn, fn.blocks[b])]
    IN [func |-> MFunction(fn, [b \in DOMAIN bs |-> bs[b].insts]),
        ice |-> \E b \in DOMAIN bs : bs[b].ice]

\* [funcs, ice]: the vector Module::mir returns, unless it ran into an ICE
mir(c) ==
    LET vs == mir_assign_functions([virts |-> <<>>, n |-> FirstVirtualRegister, ice |-> FALSE],
                                   c, 1)
        fs == [n \in DOMAIN c |-> mir_function(vs, c[n])]
    IN IF vs.ice \/ \E n \in DOMAIN fs : fs[n].ice
       THEN [funcs |-> <<>>, ice |-> TRUE]
       ELSE [funcs |-> [n \in DOMAIN fs |-> fs[n].func], ice |-> FALSE]

(***************************************************************************)
(* Calls on a Module: lower(), mir(), emit().                              *)
(***************************************************************************)
InitModule ==
    /\ OptIdle
    /\ X64Idle
    /\ target \in Targets
    /\ code \in {<<fn>> : fn \in LccFunctions}
    /\ machine_ir = <<>>
    /\ mpc = "created"
    /\ opts = <<>>
    /\ has_error = FALSE
    /\ exit_code = 0
    /\ lpc = "idle"

Lower ==
    /\ mpc = "created"
    /\ mpc' = IF lower_ice(target, code) THEN "lower_ice" ELSE "lowered"
    /\ UNCHANGED <<target, code, machine_ir, opts, has_error, exit_code, lpc>>
    /\ UNCHANGED optvars
    /\ UNCHANGED reg_name

Mir ==
    /\ mpc \in {"created", "lowered"}
    /\ LET r == mir(code)
       IN /\ machine_ir' = r.funcs
          /\ mpc' = IF r.ice THEN "mir_ice" ELSE "mir"
    /\ UNCHANGED <<target, code, opts, has_error, exit_code, lpc>>
    /\ UNCHANGED optvars
    /\ UNCHANGED reg_name

\* emit() in the GNU assembly format: mir(), then the TODO assertion
Emit ==
    /\ mpc \in {"created", "lowered"}
    /\ machine_ir' = mir(code).funcs
    /\ mpc' = "emit_ice"
    /\ UNCHANGED <<target, code, opts, has_error, exit_code, lpc>>
    /\ UNCHANGED optvars
    /\ UNCHANGED reg_name

NextModule ==
    \/ Lower
    \/ Mir
    \/ Emit

SpecModule == InitModule /\ [][NextModule]_vars

(***************************************************************************)
(* C17. Module::mir maps the directly mapped kinds one to one.             *)
(***************************************************************************)
DirectlyMapped == {"Alloca", "Load", "Store", "Return"} \cup LccUnaryKinds \cup LccBinaryKinds

\* C17: for a function of alloca, load, store, unary, binary and return
\* instructions only, Module::mir gives every IR block one MIR block with one
\* MIR instruction per IR instruction, in order and of the same opcode
MirOneToOne ==
    (mpc = "mir" /\ \A n \in DOMAIN code : \A i \in DOMAIN code[n].inst :
                        code[n].inst[i].kind \in DirectlyMapped)
    => \A n \in DOMAIN code :
          /\ Len(machine_ir[n].blocks) = Len(code[n].blocks)
          /\ \A b \in DOMAIN code[n].blocks :
                /\ Len(machine_ir[n].blocks[b]) = Len(code[n].blocks[b])
                /\ \A k \in DOMAIN code[n].blocks[b] :
                      machine_ir[n].blocks[b][k].kind = code[n].inst[code[n].blocks[b][k]].kind

(***************************************************************************)
(* C18. Module::lower and a 24-byte return value on x86-64 Linux.          *)
(***************************************************************************)
\* the function takes a hidden pointer first, returns void, and every return
\* is a void return preceded by a memcpy
ReturnsThroughHiddenPointer(fn) ==
    /\ fn.return_bits = 0
    /\ Len(fn.params) >= 1 /\ Head(fn.params) = "ptr"
    /\ \A b \in DOMAIN fn.blocks : \A k \in DOMAIN fn.blocks[b] :
          fn.inst[fn.blocks[b][k]].kind = "Return" =>
              /\ fn.inst[fn.blocks[b][k]].ops = <<>>
              /\ k > 1
              /\ fn.inst[fn.blocks[b][k - 1]].kind = "Intrinsic"

\* C18: on x86-64 Linux Module::lower completes without an internal compiler
\* error and leaves every function that returned 24 bytes returning through
\* a hidden pointer parameter
LargeReturnLowered ==
    (mpc \in {"lowered", "lower_ice"} /\ target = "x86_64_linux"
        /\ \E n \in DOMAIN code : code[n].return_bits = LargeBits)
    => /\ mpc = "lowered"
       /\ \A n \in DOMAIN code : ReturnsThroughHiddenPointer(code[n])

(***************************************************************************)
(* lcc: the driver (src/lcc.cc, main).                                     *)
(* opts is the parsed command line: the number of input files, the         *)
(* extension of the first one, and the flags.                              *)
(***************************************************************************)
MaxFiles == 2
\* the exit status of lcc::Diag::Fatal
FatalStatus == 1

Extensions == {".int", ".laye", ".c", ".txt"}

InitLcc ==
    /\ OptIdle
    /\ X64Idle
    /\ target = "x86_64_linux"
    /\ code = <<>>
    /\ machine_ir = <<>>
    /\ mpc = "idle"
    /\ opts \in [files : 0..MaxFiles, ext : Extensions, v : BOOLEAN, ast : BOOLEAN,
                 syntax_only : BOOLEAN]
    /\ has_error = FALSE
    /\ exit_code = 0
    /\ lpc = "main"

Exit(status) ==
    /\ exit_code' = status
    /\ lpc' = "exited"

\* the number of input files is not one, or the file type is not recognised
MainFatal ==
    /\ lpc = "main"
    /\ opts.files # 1 \/ opts.ext \notin {".int", ".laye", ".c"}
    /\ Exit(FatalStatus)
    /\ UNCHANGED <<target, code, machine_ir, mpc, opts, has_error>>
    /\ UNCHANGED optvars
    /\ UNCHANGED reg_name

\* lcc::intercept::Parser::Parse; the file may or may not have syntax errors
InterceptParse ==
    /\ lpc = "main"
    /\ opts.files = 1 /\ opts.ext = ".int"
    /\ has_error' \in BOOLEAN
    /\ lpc' = "parsed"
    /\ UNCHANGED <<target, code, machine_ir, mpc, opts, exit_code>>
    /\ UNCHANGED optvars
    /\ UNCHANGED reg_name

InterceptSyntaxOnly ==
    /\ lpc = "parsed"
    /\ opts.syntax_only
    /\ Exit(IF has_error THEN 1 ELSE 0)
    /\ UNCHANGED <<target, code, machine_ir, mpc, opts, has_error>>
    /\ UNCHANGED optvars
    /\ UNCHANGED reg_name

\* lcc::intercept::Sema::Analyse; it may add errors, it never clears them
InterceptSema ==
    /\ lpc = "parsed"
    /\ ~opts.syntax_only
    /\ has_error' \in {e \in BOOLEAN : has_error => e}
    /\ lpc' = "analysed"
    /\ UNCHANGED <<target, code, machine_ir, mpc, opts, exit_code>>
    /\ UNCHANGED optvars
    /\ UNCHANGED reg_name

\* --ast after sema, then IRGen::Generate and `return 42`
InterceptGenerate ==
    /\ lpc = "analysed"
    /\ Exit(IF opts.ast /\ has_error THEN 1 ELSE 42)
    /\ UNCHANGED <<target, code, machine_ir, mpc, opts, has_error>>
    /\ UNCHANGED optvars
    /\ UNCHANGED reg_name

\* layec_laye_parse on the file, then `return 69`; has_error stands for the
\* errors layec reported
LayeCompile ==
    /\ lpc = "main"
    /\ opts.files = 1 /\ opts.ext = ".laye"
    /\ has_error' \in BOOLEAN
    /\ Exit(69)
    /\ UNCHANGED <<target, code, machine_ir, mpc, opts>>
    /\ UNCHANGED optvars
    /\ UNCHANGED reg_name

\* layec_c_get_tokens on the file, then `return 89`
CCompile ==
    /\ lpc = "main"
    /\ opts.files = 1 /\ opts.ext = ".c"
    /\ has_error' \in BOOLEAN
    /\ Exit(89)
    /\ UNCHANGED <<target, code, machine_ir, mpc, opts>>
    /\ UNCHANGED optvars
    /\ UNCHANGED reg_name

NextLcc ==
    \/ MainFatal
    \/ InterceptParse
    \/ InterceptSyntaxOnly
    \/ InterceptSema
    \/ InterceptGenerate
    \/ LayeCompile
    \/ CCompile

SpecLcc == InitLcc /\ [][NextLcc]_vars

(***************************************************************************)
(* C19. The exit status.                                                   *)
(***************************************************************************)
\* C19: compiling one .int, .laye or .c file, with or without --syntax-only,
\* the process exits with 0 exactly when no error diagnostic was issued
ExitStatusTellsErrors ==
    (lpc = "exited" /\ opts.files = 1 /\ opts.ext \in {".int", ".laye", ".c"})
        => (exit_code = 0 <=> ~has_error)

(***************************************************************************)
(* C21. Folding a constant conditional branch keeps phis and CFG in step.  *)
(***************************************************************************)
\* the conditional branches opt_instcombine folds
ConstantCondBranches(fn) ==
    {i \in Live(fn) : fn.inst[i].kind = "IR_BRANCH_CONDITIONAL" /\ IsImm(fn, fn.inst[i].condition)}

\* C21: after opt_instcombine folded a condbranch on a constant into a branch,
\* every phi still has exactly the CFG predecessors of its block as incoming
\* blocks
PhisMatchAfterBranchFolding ==
    (last_pass = "instcombine" /\ ~Crashed(f) /\ ConstantCondBranches(pre) # {}
        /\ PhiPredecessorsMatch(pre))
    => PhiPredecessorsMatch(f)

(***************************************************************************)
(* C22. Store forwarding is block-local.                                   *)
(***************************************************************************)
\* the stores to the alloca a load reads that precede the load in its block
PrecedingStores(fn, l) ==
    LET is == fn.instructions[parent_block(fn, l)]
    IN {is[k] : k \in {n \in DOMAIN is :
                          /\ n < IndexIn(fn, l)
                          /\ fn.inst[is[n]].kind = "IR_STORE"
                          /\ fn.inst[is[n]].addr = fn.inst[l].operand
                          /\ fn.inst[fn.inst[l].operand].kind = "IR_ALLOCA"}}

LatestStore(fn, l) ==
    CHOOSE s \in PrecedingStores(fn, l) :
        \A s2 \in PrecedingStores(fn, l) : IndexIn(fn, s2) <= IndexIn(fn, s)

ForwardableLoads(fn) ==
    {l \in Live(fn) : fn.inst[l].kind = "IR_LOAD" /\ PrecedingStores(fn, l) # {}}

RECURSIVE ForwardedValue(_, _)
\* the value that stands for v once every forwardable load is gone
ForwardedValue(fn, v) ==
    IF v \in ForwardableLoads(fn)
    THEN ForwardedValue(fn, fn.inst[LatestStore(fn, v)].value)
    ELSE v

RECURSIVE WithLoadsForwarded(_, _, _)
WithLoadsForwarded(fn, r, ls) ==
    IF ls = {} THEN r
    ELSE LET l == CHOOSE x \in ls : TRUE
         IN WithLoadsForwarded(fn, ReplaceOperand(r, l, ForwardedValue(fn, l)), ls \ {l})

\* C22: opt_store_forwarding removes exactly the loads of an alloca that have a
\* store to it before them in their own block, replaces their uses by the value
\* of the latest such store, and leaves every other load as it was
ForwardingIsBlockLocal ==
    (last_pass = "store_forwarding" /\ ~Crashed(f)) =>
        /\ \A l \in Live(pre) :
              pre.inst[l].kind = "IR_LOAD" => (l \in Live(f) <=> l \notin ForwardableLoads(pre))
        /\ \A u \in Live(f) :
              f.inst[u] = WithLoadsForwarded(pre, pre.inst[u], ForwardableLoads(pre))

\* a load was forwarded while a load of the same variable in the next block,
\* which has no store before it there, stayed
ForwardingIsBlockLocalWitness ==
    /\ last_pass = "store_forwarding"
    /\ ~Crashed(f)
    /\ \E l \in ForwardableLoads(pre) : \E l2 \in Live(f) :
          /\ f.inst[l2].kind = "IR_LOAD"
          /\ f.inst[l2].operand = pre.inst[l].operand
          /\ parent_block(pre, l2) # parent_block(pre, l)


(***************************************************************************)
(* C23. opt_mem2reg leaves the variables it cannot promote alone, and      *)
(* warns once for each variable loaded before its first store.             *)
(***************************************************************************)
StoredMoreThanOnce(fn, a) == Cardinality(StoresTo(fn, a)) >= 2
AddressTaken(fn, a) ==
    \/ fn.users[a] # StoresTo(fn, a) \cup LoadsOf(fn, a)
    \/ \E s \in StoresTo(fn, a) : fn.inst[s].value = a
LoadBeforeStore(fn, a) ==
    \E l \in LoadsOf(fn, a) : \A s \in StoresTo(fn, a) : Position(fn, l) < Position(fn, s)

NonOptimisableAllocas(fn) ==
    {a \in Live(fn) : /\ fn.inst[a].kind = "IR_ALLOCA"
                      /\ fn.users[a] \subseteq Live(fn)
                      /\ \/ StoredMoreThanOnce(fn, a)
                         \/ AddressTaken(fn, a)
                         \/ LoadBeforeStore(fn, a)}

LoadBeforeStoreAllocas(fn) ==
    {a \in Live(fn) : /\ fn.inst[a].kind = "IR_ALLOCA"
                      /\ fn.users[a] \subseteq Live(fn)
                      /\ LoadBeforeStore(fn, a)}

Mem2RegWarnsOnce ==
    /\ last_pass = "mem2reg"
    /\ input = LoadBeforeStoreProgram
    /\ LoadBeforeStoreAllocas(pre) = {1}
    /\ warnings = 1


(***************************************************************************)
(* C24. The return value of opt_tail_call_elim.                            *)
(***************************************************************************)
\* the calls the last run of opt_tail_call_elim marked
NewlyMarkedTailCalls == TailCalls(f) \ TailCalls(pre)

\* C24: opt_tail_call_elim returns true when it marked at least one call as a
\* tail call, and false only when it marked none
TailCallElimReportsChange ==
    (last_pass = "tail_call_elim" /\ ~Crashed(f)) =>
        (changed <=> NewlyMarkedTailCalls # {})


(***************************************************************************)
(* C25. The layout opt_reorder_blocks produces.                            *)
(***************************************************************************)
\* the block the last instruction of b branches to (the then-target of a
\* conditional branch), Nil for any other terminator
PreferredSuccessor(fn, b) ==
    LET last == fn.inst[LastInst(fn, b)]
    IN CASE last.kind = "IR_BRANCH" -> last.destination_block
         [] last.kind = "IR_BRANCH_CONDITIONAL" -> last.then
         [] OTHER -> Nil

RECURSIVE DomTreeNodes(_, _)
\* the nodes of the dominator tree below (and including) the nodes in `from`
DomTreeNodes(fn, from) ==
    LET next == from \cup UNION {SeqToSet(DomChildren(fn, n)) : n \in from}
    IN IF next = from THEN from ELSE DomTreeNodes(fn, next)

\* C25: the block list opt_reorder_blocks produces holds every block of the
\* dominator tree exactly once, the entry block first, and a block whose
\* branch target (then-target) is one of its dominator-tree children is
\* immediately followed by that target
ReorderLayout ==
    last_pass = "reorder_blocks" =>
        /\ SeqToSet(f.blocks) = DomTreeNodes(pre, {EntryBlock(pre)})
        /\ Len(f.blocks) = Cardinality(DomTreeNodes(pre, {EntryBlock(pre)}))
        /\ f.blocks[1] = EntryBlock(pre)
        /\ \A k \in DOMAIN f.blocks :
              LET b == f.blocks[k]
              IN PreferredSuccessor(pre, b) \in SeqToSet(DomChildren(pre, b)) =>
                    k < Len(f.blocks) /\ f.blocks[k + 1] = PreferredSuccessor(pre, b)

\* a node with three children: the then-target follows it, and the join block
\* comes before the else-target
ReorderLayoutWitness ==
    /\ last_pass = "reorder_blocks"
    /\ pre = DiamondProgram
    /\ Len(DomChildren(pre, 1)) = 3
    /\ PreferredSuccessor(pre, 1) = 2
    /\ f.blocks = <<1, 2, 4, 3>>


(***************************************************************************)
(* C26. What is left when opt_analyse_functions returns.                   *)
(***************************************************************************)
\* the functions a func_ref or a direct call in a function that is still in
\* the module, or the initialiser of a static variable, refers to
ReferencedByRemaining(c) ==
    UNION {FunctionsReferencedBy(c, g) : g \in SeqToSet(c.functions)}
    \cup ({check_function_references(c.static_vars[k]) : k \in DOMAIN c.static_vars} \ {Nil})

\* C26: when opt_analyse_functions returns, every function still in the
\* module other than the entry function, extern or not, is referenced by a
\* func_ref or a direct call in a function still in the module or in the
\* initialiser of a static variable
RemainingFunctionsAreReferenced ==
    apc = "returned" =>
        SeqToSet(ctx.functions) \ {ctx.entry} \subseteq ReferencedByRemaining(ctx)


(***************************************************************************)
(* C27. The div-to-shift rewrite and the other users of the divisor.       *)
(***************************************************************************)
\* the divisions by a power of two whose divisor is the immediate d
DivsSharing(fn, d) == {j \in DivsByPowerOfTwo(fn) : fn.inst[j].rhs = d}

\* C27: when opt_instcombine rewrites div(x, 2^k) into a shift, every other
\* user of the divisor immediate still reads 2^k from it, and every div that
\* shares the divisor is rewritten into a shift by the same k
DivRewriteLeavesSharedDivisor ==
    (last_pass = "instcombine" /\ ~f.trap) =>
        \A i \in DivsByPowerOfTwo(pre) :
            LET d == pre.inst[i].rhs
                k == ctzll(pre.inst[d].imm)
            IN /\ \A u \in (pre.users[d] \cap Live(f)) \ DivsSharing(pre, d) :
                     d \in Operands(f.inst[u]) => f.inst[d].imm = pre.inst[d].imm
               /\ \A j \in DivsSharing(pre, d) :
                     /\ f.inst[j].kind = "IR_SAR"
                     /\ IsImm(f, f.inst[j].rhs)
                     /\ f.inst[f.inst[j].rhs].imm = k


(***************************************************************************)
(* C28. tail_call_possible returns.                                        *)
(***************************************************************************)
\* C28: every call of tail_call_possible made by opt_tail_call_elim returns:
\* the recursion of tail_call_possible_iter over the blocks after the call
\* ends, also where those blocks form a cycle of phis and branches
TailCallPossibleTerminates ==
    last_pass = "tail_call_elim" => ~f.overflow


RegisterIds ==
    {"INVALID", "RAX", "RBX", "RCX", "RDX", "R8", "R9", "R10", "R11", "R12", "R13", "R14",
     "R15", "RDI", "RSI", "RBP", "RSP", "RIP", "RETURN"}

\* the sizes ToString is called with: none given, the four operand sizes, and
\* one that is none of them
RegisterSizes == {0, 8, 16, 32, 64, 128}

\* what the model records when LCC_ASSERT(false, "Invalid size: {}") aborts
InvalidSize == "LCC_ASSERT: Invalid size"

\* the chain of `if (size == N) return ...;` of one case, ended by the assertion
SizedName(size, names) == IF size \in DOMAIN names THEN names[size] ELSE InvalidSize

\* std::string ToString(RegisterId id, usz size); the TLC module has a ToString
RegisterIdToString(id, size0) ==
    LET size == IF size0 = 0 THEN 64 ELSE size0
    IN CASE id = "INVALID" -> "x86_64.INVALID"
         [] id = "RAX" -> SizedName(size, 64 :> "rax" @@ 32 :> "eax" @@ 16 :> "ax" @@ 8 :> "al")
         [] id = "RBX" -> SizedName(size, 64 :> "rbx" @@ 32 :> "ebx" @@ 16 :> "bx" @@ 8 :> "bl")
         [] id = "RCX" -> SizedName(size, 64 :> "rcx" @@ 32 :> "ecx" @@ 16 :> "cx" @@ 8 :> "cl")
         [] id = "RDX" -> SizedName(size, 64 :> "rdx" @@ 32 :> "edx" @@ 16 :> "dx" @@ 8 :> "dl")
         [] id = "R8" -> SizedName(size, 64 :> "r8" @@ 32 :> "r8d" @@ 16 :> "r8w" @@ 8 :> "r8b")
         [] id = "R9" -> SizedName(size, 64 :> "r9" @@ 32 :> "r9d" @@ 16 :> "r9w" @@ 8 :> "r9b")
         [] id = "R10" ->
              SizedName(size, 64 :> "r10" @@ 32 :> "r10d" @@ 16 :> "r10w" @@ 8 :> "r10b")
         [] id = "R11" ->
              SizedName(size, 64 :> "r11" @@ 32 :> "r11d" @@ 16 :> "r11w" @@ 8 :> "r11b")
         [] id = "R12" ->
              SizedName(size, 64 :> "r12" @@ 32 :> "r12d" @@ 16 :> "12w" @@ 8 :> "r12b")
         [] id = "R13" ->
              SizedName(size, 64 :> "r13" @@ 32 :> "r13d" @@ 16 :> "r13w" @@ 8 :> "r13b")
         [] id = "R14" ->
              SizedName(size, 64 :> "r14" @@ 32 :> "r14d" @@ 16 :> "r14w" @@ 8 :> "r14b")
         [] id = "R15" ->
              SizedName(size, 64 :> "r15" @@ 32 :> "r15w" @@ 16 :> "r15d" @@ 8 :> "r15b")
         [] id = "RDI" -> SizedName(size, 64 :> "rdi" @@ 32 :> "edi" @@ 16 :> "di")
         [] id = "RSI" -> SizedName(size, 64 :> "rsi" @@ 32 :> "esi" @@ 16 :> "si")
         [] id = "RBP" -> SizedName(size, 64 :> "rbp" @@ 32 :> "ebp" @@ 16 :> "bp")
         [] id = "RSP" -> SizedName(size, 64 :> "rsp" @@ 32 :> "esp" @@ 16 :> "sp")
         [] id = "RIP" -> SizedName(size, 64 :> "rip" @@ 32 :> "eip" @@ 16 :> "ip")
         [] id = "RETURN" -> "x86_64.RETURN"

InitX64 ==
    /\ OptIdle
    /\ LccIdle

\* the code generator asks for the name of a register
RegisterToString ==
    /\ \E id \in RegisterIds : \E size \in RegisterSizes :
          reg_name' = [id |-> id, size |-> size, name |-> RegisterIdToString(id, size)]
    /\ UNCHANGED optvars
    /\ UNCHANGED <<target, code, machine_ir, mpc, opts, has_error, exit_code, lpc>>

NextX64 == RegisterToString

SpecX64 == InitX64 /\ [][NextX64]_vars

(***************************************************************************)
(* C30. The register names ToString(id, size) returns.                     *)
(***************************************************************************)
GeneralPurposeRegisters == RegisterIds \ {"INVALID", "RIP", "RETURN"}
OperandSizes == {64, 32, 16, 8}

\* the stem of the name of one of the eight registers of the 8086
LegacyStem(id) ==
    CASE id = "RAX" -> "a" [] id = "RBX" -> "b" [] id = "RCX" -> "c" [] id = "RDX" -> "d"
      [] id = "RSI" -> "si" [] id = "RDI" -> "di" [] id = "RBP" -> "bp" [] id = "RSP" -> "sp"

\* the number of one of the registers R8..R15
RegisterNumber(id) ==
    CASE id = "R8" -> "8" [] id = "R9" -> "9" [] id = "R10" -> "10" [] id = "R11" -> "11"
      [] id = "R12" -> "12" [] id = "R13" -> "13" [] id = "R14" -> "14" [] id = "R15" -> "15"

\* the name the x86-64 architecture gives the size-bit form of the register
ConventionalName(id, size) ==
    IF id \in {"R8", "R9", "R10", "R11", "R12", "R13", "R14", "R15"}
    THEN "r" \o RegisterNumber(id) \o
            (CASE size = 64 -> "" [] size = 32 -> "d" [] size = 16 -> "w" [] size = 8 -> "b")
    ELSE IF id \in {"RAX", "RBX", "RCX", "RDX"}
    THEN CASE size = 64 -> "r" \o LegacyStem(id) \o "x"
           [] size = 32 -> "e" \o LegacyStem(id) \o "x"
           [] size = 16 -> LegacyStem(id) \o "x"
           [] size = 8 -> LegacyStem(id) \o "l"
    ELSE CASE size = 64 -> "r" \o LegacyStem(id)
           [] size = 32 -> "e" \o LegacyStem(id)
           [] size = 16 -> LegacyStem(id)
           [] size = 8 -> LegacyStem(id) \o "l"

\* C30: for each of the sixteen general-purpose registers and each size of
\* 64, 32, 16 and 8 bits ToString returns the conventional name of that form
\* of the register without failing an assertion, no other register and size
\* has the same name, and size 0 gives the 64-bit name
RegisterNamesConventional ==
    (reg_name.id \in GeneralPurposeRegisters /\ reg_name.size \in OperandSizes \cup {0}) =>
        /\ reg_name.name # InvalidSize
        /\ reg_name.name =
              ConventionalName(reg_name.id, IF reg_name.size = 0 THEN 64 ELSE reg_name.size)
        /\ \A id \in GeneralPurposeRegisters : \A size \in OperandSizes :
              RegisterIdToString(id, size) = reg_name.name =>
                  id = reg_name.id /\ size = (IF reg_name.size = 0 THEN 64 ELSE reg_name.size)

====
